---- MODULE Spec2Model ----
(***************************************************************************)
(* A model of mega-rs: the streaming decryption + integrity engine        *)
(* (mega/src/file_validator.rs, mega/src/easy/reader.rs), the command     *)
(* channel (src/client.rs), mega-cli's verify-file command and the key    *)
(* types (mega/src/types/file_key.rs, folder_key.rs,                      *)
(* file_or_folder_key.rs).                                                *)
(*                                                                         *)
(* Sizes are scaled so that TLC can enumerate streams: a byte is one bit, *)
(* a MAC word (u32 in the code) is WordLen bytes, a block (u128) is WORDS *)
(* words, and the first chunk holds ChunkUnitBlocks blocks.  AES-128 is   *)
(* an opaque keyed permutation of the block values; nothing below relies  *)
(* on more than its being a permutation for every key.                    *)
(***************************************************************************)
EXTENDS Integers, Sequences, FiniteSets, TLC

\* ------------------------------------------------------------------ bounds
\* Bytes in one MAC word (4 in the code, a u32).
WordLen == 1
\* Longest upstream stream, in bytes.
MaxLen == 8
\* Blocks in the first chunk (128 KiB / 16 in the code).
ChunkUnitBlocks == 1
\* Longest file given to verify-file, in bytes, and the most nonzero bytes in it.
MaxFileLen == 14
MaxOnes == 2
\* Most next() calls made on a ChunkIter driven on its own.
MaxChunks == 120
\* Longest string handed to a key parser.
MaxTextLen == 13
\* The length of the one long file fed to a FileValidator on its own.
LongFileLen == 150
\* The longest slice handed to one feed call of that FileValidator.
MaxFeedLen == 40
\* The number of commands queued on the batching client.
MaxQueued == 3
\* Longest stream read through the older validating reader, in bytes.
MaxEasyLen == 6
\* Longest body download_file copies, in bytes.
MaxGetLen == 6
\* The number of folder ids in the children map of download_folder.
MaxFolders == 2
\* The number of nodes in a folder listing.
MaxNodes == 3
\* Largest caller buffer handed to one poll_read.
MaxCap == 5
\* Most commands in one batch.
MaxCommands == 1
\* Most entries in a response array.
MaxItems == 2
\* Width of the sequence counter in bits (64 in the code).
CounterBits == 17

\* ------------------------------------------------------------- arithmetic
Byte == {0, 1}
ByteMod == Cardinality(Byte)

\* The four u32 words finish() slices out of the 16 MAC bytes.
WORDS == 4
BlockLen == WORDS * WordLen
HalfLen == BlockLen \div 2

WordMod == ByteMod ^ WordLen
U64Mod == ByteMod ^ HalfLen
U128Mod == ByteMod ^ BlockLen

Min(a, b) == IF a < b THEN a ELSE b
Front(q) == SubSeq(q, 1, Len(q) - 1)
Last(q) == q[Len(q)]

RECURSIVE Xor(_, _)
Xor(a, b) ==
    IF a = 0 THEN b
    ELSE IF b = 0 THEN a
    ELSE (((a % 2) + (b % 2)) % 2) + 2 * Xor(a \div 2, b \div 2)

\* uN::to_be_bytes, for a value of n bytes.
to_be_bytes(x, n) == [i \in 1..n |-> (x \div (ByteMod ^ (n - i))) % ByteMod]

\* uN::from_be_bytes.
RECURSIVE from_be_bytes(_)
from_be_bytes(bytes) ==
    IF Len(bytes) = 0 THEN 0
    ELSE from_be_bytes(SubSeq(bytes, 1, Len(bytes) - 1)) * ByteMod
         + bytes[Len(bytes)]

\* ---------------------------------------------------------------- AES-128
\* One AES-128 block encryption under `key`: a permutation of the block
\* values for every key (xor with the key, an odd multiplier, a xor-shift,
\* an odd multiplier).
Aes(key, x) ==
    LET s1 == Xor(x, key % U128Mod)
        s2 == (s1 * 5 + 3) % U128Mod
        s3 == Xor(s2, s2 \div 4)
    IN  (s3 * 3 + key + 1) % U128Mod

\* CBC encryption of one block with an all-zero IV.
aes_cbc_encrypt_u128(key, data) ==
    to_be_bytes(Aes(key, Xor(from_be_bytes(data), 0)), BlockLen)

\* --------------------------------------------------------------- ChunkIter
CHUNK_STEP == ChunkUnitBlocks * BlockLen
CHUNK_CAP == 8 * CHUNK_STEP

ChunkIterNew == [offset |-> 0, delta |-> 0]

ChunkIterNext_uncapped(it) ==
    LET delta == it.delta + CHUNK_STEP
    IN  [iter |-> [offset |-> it.offset + delta, delta |-> delta],
         item |-> <<it.offset, delta>>]

\* ChunkIter::next: the iterator after the call and the item it yields.
ChunkIterNext(it) ==
    LET delta == Min(it.delta + CHUNK_STEP, CHUNK_CAP)
    IN  [iter |-> [offset |-> it.offset + delta, delta |-> delta],
         item |-> <<it.offset, delta>>]

\* ----------------------------------------------------------- FileValidator
create_chunk_mac(file_key) ==
    LET iv_bytes == to_be_bytes(file_key.iv, BlockLen)
    IN  from_be_bytes(SubSeq(iv_bytes, 1, HalfLen) \o SubSeq(iv_bytes, 1, HalfLen))

FileValidatorNew(file_key) ==
    LET n == ChunkIterNext(ChunkIterNew)
    IN  [file_key |-> file_key,
         chunk_iter |-> n.iter,
         left_in_chunk |-> n.item[2],
         file_mac |-> 0,
         chunk_mac |-> create_chunk_mac(file_key),
         buffer |-> [i \in 1..BlockLen |-> 0],
         buffer_end |-> 0]

begin_new_chunk_no_reseed(v) ==
    LET file_mac == from_be_bytes(aes_cbc_encrypt_u128(v.file_key.key,
                        to_be_bytes(Xor(v.file_mac, v.chunk_mac), BlockLen)))
        n == ChunkIterNext(v.chunk_iter)
    IN  [v EXCEPT !.file_mac = file_mac,
                  !.chunk_iter = n.iter,
                  !.left_in_chunk = n.item[2]]

begin_new_chunk(v) ==
    LET file_mac == from_be_bytes(aes_cbc_encrypt_u128(v.file_key.key,
                        to_be_bytes(Xor(v.file_mac, v.chunk_mac), BlockLen)))
        n == ChunkIterNext(v.chunk_iter)
    IN  [v EXCEPT !.file_mac = file_mac,
                  !.chunk_mac = create_chunk_mac(v.file_key),
                  !.chunk_iter = n.iter,
                  !.left_in_chunk = n.item[2]]

process_block(v, block) ==
    LET chunk_mac == from_be_bytes(aes_cbc_encrypt_u128(v.file_key.key,
                        to_be_bytes(Xor(v.chunk_mac, from_be_bytes(block)), BlockLen)))
        v1 == [v EXCEPT !.chunk_mac = chunk_mac,
                        !.left_in_chunk = @ - BlockLen]
    IN  IF v1.left_in_chunk = 0 THEN begin_new_chunk(v1) ELSE v1

\* The second half of feed: every whole block of `input` is processed, the
\* remainder (if any) is saved at the start of the staging buffer.
RECURSIVE feed_blocks(_, _)
feed_blocks(v, input) ==
    IF Len(input) >= BlockLen
    THEN feed_blocks(process_block(v, SubSeq(input, 1, BlockLen)),
                     SubSeq(input, BlockLen + 1, Len(input)))
    ELSE IF Len(input) # 0
    THEN [v EXCEPT !.buffer = [i \in 1..BlockLen |->
                                  IF i <= Len(input) THEN input[i] ELSE @[i]],
                   !.buffer_end = Len(input)]
    ELSE v

feed_lost_staging(v, input) ==
    IF v.buffer_end # 0
    THEN LET need_to_consume == BlockLen - v.buffer_end
             consume_input_len == Min(need_to_consume, Len(input))
             buffer == [i \in 1..BlockLen |->
                          IF i > v.buffer_end /\ i <= v.buffer_end + consume_input_len
                          THEN input[i - v.buffer_end] ELSE v.buffer[i]]
         IN  IF consume_input_len < need_to_consume
             THEN [v EXCEPT !.buffer = buffer]
             ELSE feed_blocks([process_block(v, buffer) EXCEPT !.buffer = buffer,
                                                               !.buffer_end = 0],
                              SubSeq(input, need_to_consume + 1, Len(input)))
    ELSE feed_blocks(v, input)

\* FileValidator::feed.
feed(v, input) ==
    IF v.buffer_end # 0
    THEN LET need_to_consume == BlockLen - v.buffer_end
             consume_input_len == Min(need_to_consume, Len(input))
             buffer == [i \in 1..BlockLen |->
                          IF i > v.buffer_end /\ i <= v.buffer_end + consume_input_len
                          THEN input[i - v.buffer_end] ELSE v.buffer[i]]
         IN  IF consume_input_len < need_to_consume
             THEN [v EXCEPT !.buffer = buffer,
                            !.buffer_end = @ + consume_input_len]
             ELSE feed_blocks([process_block(v, buffer) EXCEPT !.buffer = buffer,
                                                               !.buffer_end = 0],
                              SubSeq(input, need_to_consume + 1, Len(input)))
    ELSE feed_blocks(v, input)

finish_compare(v, file_mac) ==
    LET file_mac_bytes == to_be_bytes(file_mac, BlockLen)
        file_mac_u32_0 == from_be_bytes(SubSeq(file_mac_bytes, 1, WordLen))
        file_mac_u32_1 == from_be_bytes(SubSeq(file_mac_bytes, WordLen + 1, 2 * WordLen))
        file_mac_u32_2 == from_be_bytes(SubSeq(file_mac_bytes, 2 * WordLen + 1, 3 * WordLen))
        file_mac_u32_3 == from_be_bytes(SubSeq(file_mac_bytes, 3 * WordLen + 1, BlockLen))
        final_file_mac_u32_0 == Xor(file_mac_u32_0, file_mac_u32_1)
        final_file_mac_u32_1 == Xor(file_mac_u32_2, file_mac_u32_3)
        final_file_mac == from_be_bytes(to_be_bytes(final_file_mac_u32_0, WordLen)
                                        \o to_be_bytes(final_file_mac_u32_1, WordLen))
    IN  IF final_file_mac # v.file_key.meta_mac
        THEN [kind |-> "MacMismatch",
              expected_mac |-> to_be_bytes(v.file_key.meta_mac, HalfLen),
              actual_mac |-> to_be_bytes(final_file_mac, HalfLen)]
        ELSE [kind |-> "Ok"]

finish_pads_tail(v) ==
    LET padded == [i \in 1..BlockLen |-> IF i <= v.buffer_end THEN v.buffer[i] ELSE 0]
        w == IF v.buffer_end # 0 THEN process_block(v, padded) ELSE v
    IN  finish_compare(w, Aes(w.file_key.key, Xor(w.file_mac, w.chunk_mac)))

finish_wrong_words(v) ==
    LET file_mac == from_be_bytes(aes_cbc_encrypt_u128(v.file_key.key,
                        to_be_bytes(Xor(v.file_mac, v.chunk_mac), BlockLen)))
        file_mac_bytes == to_be_bytes(file_mac, BlockLen)
        file_mac_u32_0 == from_be_bytes(SubSeq(file_mac_bytes, 1, WordLen))
        file_mac_u32_1 == from_be_bytes(SubSeq(file_mac_bytes, WordLen + 1, 2 * WordLen))
        file_mac_u32_2 == from_be_bytes(SubSeq(file_mac_bytes, 2 * WordLen + 1, 3 * WordLen))
        file_mac_u32_3 == from_be_bytes(SubSeq(file_mac_bytes, 3 * WordLen + 1, BlockLen))
        final_file_mac_u32_0 == Xor(file_mac_u32_0, file_mac_u32_2)
        final_file_mac_u32_1 == Xor(file_mac_u32_1, file_mac_u32_3)
        final_file_mac == from_be_bytes(to_be_bytes(final_file_mac_u32_0, WordLen)
                                        \o to_be_bytes(final_file_mac_u32_1, WordLen))
    IN  IF final_file_mac # v.file_key.meta_mac
        THEN [kind |-> "MacMismatch",
              expected_mac |-> to_be_bytes(v.file_key.meta_mac, HalfLen),
              actual_mac |-> to_be_bytes(final_file_mac, HalfLen)]
        ELSE [kind |-> "Ok"]

\* FileValidator::finish: takes &self, so the validator is left as it is.
finish(v) ==
    LET file_mac == from_be_bytes(aes_cbc_encrypt_u128(v.file_key.key,
                        to_be_bytes(Xor(v.file_mac, v.chunk_mac), BlockLen)))
        file_mac_bytes == to_be_bytes(file_mac, BlockLen)
        file_mac_u32_0 == from_be_bytes(SubSeq(file_mac_bytes, 1, WordLen))
        file_mac_u32_1 == from_be_bytes(SubSeq(file_mac_bytes, WordLen + 1, 2 * WordLen))
        file_mac_u32_2 == from_be_bytes(SubSeq(file_mac_bytes, 2 * WordLen + 1, 3 * WordLen))
        file_mac_u32_3 == from_be_bytes(SubSeq(file_mac_bytes, 3 * WordLen + 1, BlockLen))
        final_file_mac_u32_0 == Xor(file_mac_u32_0, file_mac_u32_1)
        final_file_mac_u32_1 == Xor(file_mac_u32_2, file_mac_u32_3)
        final_file_mac == from_be_bytes(to_be_bytes(final_file_mac_u32_0, WordLen)
                                        \o to_be_bytes(final_file_mac_u32_1, WordLen))
    IN  IF final_file_mac # v.file_key.meta_mac
        THEN [kind |-> "MacMismatch",
              expected_mac |-> to_be_bytes(v.file_key.meta_mac, HalfLen),
              actual_mac |-> to_be_bytes(final_file_mac, HalfLen)]
        ELSE [kind |-> "Ok"]

\* ------------------------------------------------------------ AES-128-CTR
\* Aes128Ctr128BE::new(key, iv): pos counts the keystream bytes used so far.
CipherNew(file_key) == [key |-> file_key.key, iv |-> file_key.iv, pos |-> 0]

\* Keystream byte number p: block p / BlockLen of the keystream is
\* AES(key, iv + p / BlockLen), the counter being a big-endian u128.
KeystreamByte(c, p) ==
    to_be_bytes(Aes(c.key, (c.iv + (p \div BlockLen)) % U128Mod), BlockLen)[(p % BlockLen) + 1]

apply_keystream_restart(c, data) ==
    [cipher |-> c,
     data |-> [i \in 1..Len(data) |-> Xor(data[i], KeystreamByte(c, c.pos + i - 1))]]

\* StreamCipher::apply_keystream: the cipher afterwards and the data xored
\* with the next Len(data) keystream bytes.
apply_keystream(c, data) ==
    [cipher |-> [c EXCEPT !.pos = @ + Len(data)],
     data |-> [i \in 1..Len(data) |-> Xor(data[i], KeystreamByte(c, c.pos + i - 1))]]

\* ------------------------------------------------------ FileDownloadReader
VARIABLES
    file_key,       \* the FileKey the reader was made with
    cipher,         \* FileDownloadReader.cipher
    validator,      \* FileDownloadReader.validator: <<>> is None, <<v>> is Some(v)
    upstream,       \* the bytes the inner reader has delivered so far
    upstream_eof,   \* the inner reader has reported end-of-stream
    output,         \* the bytes the reader has put into the caller's buffers
    last,           \* what the last poll_read returned
    mac_failed,     \* history: a read at end-of-stream has returned MacMismatch
    sequence_id,    \* Client.sequence_id, the AtomicU64 shared by all clones
    calls,          \* per execute_commands call: its position and locals
    chunk_iter,     \* a ChunkIter being driven on its own
    chunk_item,     \* what its last next() returned: <<>> is None, <<item>> is Some
    chunk_count,    \* the number of next() calls made on it
    cur_key,        \* the key in hand (a FileKey or a FolderKey)
    cur_text,       \* the string in hand
    cur_bytes,      \* the encoded bytes in hand
    cur_result,     \* what the last key operation returned
    url,            \* the Url in hand
    parsed,         \* what ParsedMegaUrl::try_from returned for it
    builder,        \* a GetAttributesBuilder
    posted,         \* the command arrays handed to execute_commands, in order
    attributes,     \* what get_attributes returned for the builder
    fetch_node,     \* a FetchNodesNode, the folder key and the target's byte order
    node_result,    \* what FetchNodesNode::decode_attributes returned for it
    state,          \* batching Client.state: buffered_commands and buffered_tx
    lock,           \* the command whose queue_command holds the Mutex, 0 for none
    queued,         \* the number of queue_command calls started
    batches,        \* the batches send_commands took, with their spawned tasks
    futures,        \* per command: the receiver the caller holds
    validated,      \* history: a read at end-of-stream has passed validation
    get_pc,         \* download_file: the statement it is at
    temp_output,    \* the file at the ".temp" path: <<>> is absent, <<bytes>> its content
    final_output,   \* the file at the output path, likewise
    copy_buf,       \* tokio::io::copy: bytes read and not yet written
    ls_options,     \* mega-cli ls: the recursive and unsorted switches
    ls_parent_id,   \* the url's folder child selector: <<>> is None, <<id>> is Some
    ls_nodes,       \* response.nodes of fetch_nodes
    ls_pc,          \* the statement ls is at
    ls_stack,       \* the Vec `stack`
    ls_children,    \* the HashSet `children`
    ls_entries,     \* what ls printed, in order
    children,       \* download_folder: args.children, per parent <<>> or <<list>>
    stack,          \* the Vec `stack`
    id_to_path,     \* the keys of the HashMap `id_to_path`
    folder_pc,      \* the statement download_folder is at
    cur_children,   \* the rest of the child list the for loop is walking
    processed,      \* history: per parent id, the child lists taken from the map
    reached,        \* history: the download_file calls started
    downloaded      \* history: the download_file calls that returned Ok

\* The state of the runs that drive one function at a time.
url_vars == <<url, parsed>>
builder_vars == <<builder, posted, attributes>>
node_vars == <<fetch_node, node_result>>
batch_vars == <<state, lock, queued, batches, futures>>
easy_vars == <<validated>>
get_vars == <<get_pc, temp_output, final_output, copy_buf>>
ls_vars == <<ls_options, ls_parent_id, ls_nodes, ls_pc, ls_stack, ls_children, ls_entries>>
folder_vars ==
    <<children, stack, id_to_path, folder_pc, cur_children, processed, reached, downloaded>>
rest_vars == <<easy_vars, get_vars, ls_vars, folder_vars>>
extra_vars == <<url_vars, builder_vars, node_vars, batch_vars, rest_vars>>
key_vars == <<cur_key, cur_text, cur_bytes, cur_result>>
chunk_vars == <<chunk_iter, chunk_item, chunk_count>>
pure_vars ==
    <<chunk_iter, chunk_item, chunk_count, cur_key, cur_text, cur_bytes, cur_result,
      extra_vars>>

reader_vars ==
    <<file_key, cipher, validator, upstream, upstream_eof, output, last, mac_failed>>

MAX_LEN == 64 * 1024

\* The FileKeys readers are made with: iv has its low half zero.
Keys == {U128Mod - 3}
IvHighs == {1}
MetaMacs == {0, 1, U64Mod - 1}
FileKeys ==
    {[key |-> k, iv |-> h * U64Mod, meta_mac |-> m] :
        k \in Keys, h \in IvHighs, m \in MetaMacs}

\* FileDownloadReader::new.
ReaderNew(fk, validate) ==
    /\ file_key = fk
    /\ cipher = CipherNew(fk)
    /\ validator = IF validate THEN <<FileValidatorNew(fk)>> ELSE <<>>

ReaderInit ==
    /\ \E fk \in FileKeys, validate \in BOOLEAN : ReaderNew(fk, validate)
    /\ upstream = <<>>
    /\ upstream_eof = FALSE
    /\ output = <<>>
    /\ last = [kind |-> "None"]
    /\ mac_failed = FALSE

PollReadReady_finish_folds(new_bytes) ==
    LET new_bytes_len == Len(new_bytes)
        ks == apply_keystream(cipher, new_bytes)
        fin == IF validator # <<>> /\ new_bytes_len = 0
               THEN finish(validator[1]) ELSE [kind |-> "Ok"]
    IN  /\ cipher' = ks.cipher
        /\ validator' = IF validator = <<>> THEN validator
                        ELSE IF new_bytes_len # 0
                        THEN <<feed(validator[1], ks.data)>>
                        ELSE <<[validator[1] EXCEPT !.file_mac =
                                  Aes(file_key.key, Xor(@, validator[1].chunk_mac))]>>
        /\ IF fin.kind # "Ok"
           THEN /\ last' = fin
                /\ output' = output
           ELSE /\ last' = [kind |-> "Ok", n |-> new_bytes_len]
                /\ output' = output \o ks.data
        /\ mac_failed' = (mac_failed \/ (fin.kind # "Ok" /\ upstream_eof'))
        /\ UNCHANGED <<file_key, sequence_id, calls, pure_vars>>

PollReadReady_no_verify_no_decrypt(new_bytes) ==
    LET new_bytes_len == Len(new_bytes)
        ks == apply_keystream(cipher, new_bytes)
        fin == IF validator # <<>> /\ new_bytes_len = 0
               THEN finish(validator[1]) ELSE [kind |-> "Ok"]
    IN  /\ cipher' = ks.cipher
        /\ validator' = IF validator # <<>> /\ new_bytes_len # 0
                        THEN <<feed(validator[1], ks.data)>> ELSE validator
        /\ IF fin.kind # "Ok"
           THEN /\ last' = fin
                /\ output' = output
           ELSE /\ last' = [kind |-> "Ok", n |-> new_bytes_len]
                /\ output' = output \o (IF validator = <<>> THEN new_bytes ELSE ks.data)
        /\ mac_failed' = (mac_failed \/ (fin.kind # "Ok" /\ upstream_eof'))
        /\ UNCHANGED <<file_key, sequence_id, calls, pure_vars>>

\* The part of poll_read after the inner reader has filled new_bytes: the
\* keystream is applied, the validator fed (or, on 0 bytes, asked to finish),
\* and the caller's buffer advanced.
PollReadReady(new_bytes) ==
    LET new_bytes_len == Len(new_bytes)
        ks == apply_keystream(cipher, new_bytes)
        fin == IF validator # <<>> /\ new_bytes_len = 0
               THEN finish(validator[1]) ELSE [kind |-> "Ok"]
    IN  /\ cipher' = ks.cipher
        /\ validator' = IF validator # <<>> /\ new_bytes_len # 0
                        THEN <<feed(validator[1], ks.data)>> ELSE validator
        /\ IF fin.kind # "Ok"
           THEN /\ last' = fin
                /\ output' = output
           ELSE /\ last' = [kind |-> "Ok", n |-> new_bytes_len]
                /\ output' = output \o ks.data
        /\ mac_failed' = (mac_failed \/ (fin.kind # "Ok" /\ upstream_eof'))
        /\ UNCHANGED <<file_key, sequence_id, calls, pure_vars>>

\* poll_read, the inner reader delivering n >= 1 bytes: the caller's buffer
\* has at least n free bytes (at most MaxCap), of which take() offers MAX_LEN.
PollReadData ==
    \E n \in 1..Min(MaxCap, MAX_LEN) :
        \E new_bytes \in [1..n -> Byte] :
            /\ ~upstream_eof
            /\ Len(upstream) + n <= MaxLen
            /\ upstream' = upstream \o new_bytes
            /\ upstream_eof' = upstream_eof
            /\ PollReadReady(new_bytes)

\* poll_read, the inner reader reporting end-of-stream (0 bytes).
PollReadEof ==
    /\ upstream' = upstream
    /\ upstream_eof' = TRUE
    /\ PollReadReady(<<>>)

\* poll_read with a caller buffer that has no free byte left: the inner
\* reader has nowhere to put data and returns Ok with 0 bytes, at any point
\* of the stream.
PollReadNoCapacity ==
    /\ UNCHANGED <<upstream, upstream_eof>>
    /\ PollReadReady(<<>>)

PollReadPending_consumes_keystream ==
    /\ last' = [kind |-> "Pending"]
    /\ cipher' = [cipher EXCEPT !.pos = @ + 1]
    /\ UNCHANGED <<file_key, validator, upstream, upstream_eof, output, mac_failed,
                   sequence_id, calls, pure_vars>>

\* poll_read, the inner reader returning Pending (ready! returns early).
PollReadPending ==
    /\ last' = [kind |-> "Pending"]
    /\ UNCHANGED <<file_key, cipher, validator, upstream, upstream_eof, output, mac_failed,
                   sequence_id, calls, pure_vars>>

\* poll_read, the inner reader returning an error (result? returns early).
PollReadError ==
    /\ ~upstream_eof
    /\ last' = [kind |-> "Err"]
    /\ UNCHANGED <<file_key, cipher, validator, upstream, upstream_eof, output, mac_failed,
                   sequence_id, calls, pure_vars>>

ReaderNext ==
    \/ PollReadData
    \/ PollReadEof
    \/ PollReadNoCapacity
    \/ PollReadPending
    \/ PollReadError

\* ----------------------------------------------------------------- Client
client_vars == <<sequence_id, calls>>

\* The calls in progress, each on its own clone of the Client.
Calls == {1, 2}

MAX_RETRIES == 3
BASE_DELAY == 250
MAX_SEQUENCE_ID == 100000
EAGAIN == -3
EOENT == -9

\* AtomicU64 wraps; the counter is CounterBits wide here.
AtomicU64Mod == 2 ^ CounterBits
Seeds == {0, MAX_SEQUENCE_ID - 1, AtomicU64Mod - 1}

\* JSON values a response body may hold: a number, an array of numbers and
\* objects, or anything else (here a string).
JInt(n) == [t |-> "int", code |-> n, items |-> <<>>]
JObject == [t |-> "object", code |-> 0, items |-> <<>>]
JString == [t |-> "string", code |-> 0, items |-> <<>>]
JArray(items) == [t |-> "array", code |-> 0, items |-> items]
Entries == {JInt(EAGAIN), JObject}
Bodies ==
    {JInt(EAGAIN), JInt(EOENT), JString}
    \cup {JArray(items) : items \in UNION {[1..n -> Entries] : n \in 0..MaxItems}}

\* What went wrong with an attempt before a body was decoded.
Transport == [t |-> "transport", code |-> 0, items |-> <<>>]
Status == [t |-> "status", code |-> 0, items |-> <<>>]

\* Response<ResponseData> from one array entry (serde untagged: a number is
\* the Error variant, an object the Ok variant).
DecodeEntry(e) ==
    IF e.t = "int" THEN [tag |-> "Error", code |-> e.code]
    ELSE [tag |-> "Ok", code |-> 0]

Decode_unwraps_singleton(body) ==
    IF body.t = "int" THEN [tag |-> "Error", code |-> body.code, items |-> <<>>]
    ELSE IF body.t = "array" /\ Len(body.items) = 1 /\ body.items[1].t = "int"
    THEN [tag |-> "Error", code |-> body.items[1].code, items |-> <<>>]
    ELSE IF body.t = "array"
    THEN [tag |-> "Ok", code |-> 0,
          items |-> [i \in 1..Len(body.items) |-> DecodeEntry(body.items[i])]]
    ELSE [tag |-> "Invalid", code |-> 0, items |-> <<>>]

\* Response<Vec<_>> from a body (serde untagged): a number is Error(code), an
\* array whose entries all decode is Ok(entries), anything else is no variant.
Decode(body) ==
    IF body.t = "int" THEN [tag |-> "Error", code |-> body.code, items |-> <<>>]
    ELSE IF body.t = "array"
    THEN [tag |-> "Ok", code |-> 0,
          items |-> [i \in 1..Len(body.items) |-> DecodeEntry(body.items[i])]]
    ELSE [tag |-> "Invalid", code |-> 0, items |-> <<>>]

\* What execute_commands returns.
NoResult == [kind |-> "None", code |-> 0, expected |-> 0, actual |-> 0, value |-> <<>>]
ReqwestError == [NoResult EXCEPT !.kind = "Reqwest"]
ApiError(code) == [NoResult EXCEPT !.kind = "ApiError", !.code = code]
ResponseLengthMismatch(expected, actual) ==
    [NoResult EXCEPT !.kind = "ResponseLengthMismatch",
                     !.expected = expected, !.actual = actual]
OkResult(value) == [NoResult EXCEPT !.kind = "Ok", !.value = value]

IdleCall ==
    [pc |-> "idle", commands_len |-> 0, observed |-> 0, id |-> 0, retries |-> 0,
     posts |-> 0, slept |-> <<>>, responses |-> <<>>, result |-> NoResult]

ClientParked ==
    /\ sequence_id = 0
    /\ calls = [c \in Calls |-> IdleCall]

\* Client::new: the counter is seeded at random.
ClientInit ==
    /\ sequence_id \in Seeds
    /\ calls = [c \in Calls |-> IdleCall]

ShouldRetry_any_code(retries, response) ==
    retries < MAX_RETRIES /\ response.tag = "Error"

ShouldRetry_one_more(retries, response) ==
    retries <= MAX_RETRIES /\ response.tag = "Error" /\ response.code = EAGAIN

\* retries < MAX_RETRIES && matches!(response, Err(ErrorCode::EAGAIN))
ShouldRetry(retries, response) ==
    retries < MAX_RETRIES /\ response.tag = "Error" /\ response.code = EAGAIN

BackoffMillis_linear(retries) == BASE_DELAY * (retries + 1)

\* BASE_DELAY * (1 << retries)
BackoffMillis(retries) == BASE_DELAY * (2 ^ retries)

AfterLoop_no_length_check(commands_len, response) ==
    IF response.tag = "Error" THEN ApiError(response.code)
    ELSE OkResult(response.items)

\* The code after the retry loop: `response?`, then the length check.
AfterLoop(commands_len, response) ==
    IF response.tag = "Error" THEN ApiError(response.code)
    ELSE IF Len(response.items) # commands_len
    THEN ResponseLengthMismatch(commands_len, Len(response.items))
    ELSE OkResult(response.items)

Start_no_increment(c) ==
    \E n \in 0..MaxCommands :
        /\ calls[c].pc = "idle"
        /\ calls' = [calls EXCEPT ![c] =
              [@ EXCEPT !.pc = "send", !.commands_len = n,
                        !.observed = sequence_id,
                        !.id = sequence_id % MAX_SEQUENCE_ID,
                        !.retries = 0, !.posts = 1]]
        /\ UNCHANGED <<sequence_id, reader_vars, pure_vars>>

Start_unreduced_id(c) ==
    \E n \in 0..MaxCommands :
        /\ calls[c].pc = "idle"
        /\ sequence_id' = (sequence_id + 1) % AtomicU64Mod
        /\ calls' = [calls EXCEPT ![c] =
              [@ EXCEPT !.pc = "send", !.commands_len = n,
                        !.observed = sequence_id,
                        !.id = sequence_id,
                        !.retries = 0, !.posts = 1]]
        /\ UNCHANGED <<reader_vars, pure_vars>>

\* execute_commands up to its first suspension: the id is drawn, the url
\* built and the first POST sent.
Start(c) ==
    \E n \in 0..MaxCommands :
        /\ calls[c].pc = "idle"
        /\ sequence_id' = (sequence_id + 1) % AtomicU64Mod
        /\ calls' = [calls EXCEPT ![c] =
              [@ EXCEPT !.pc = "send", !.commands_len = n,
                        !.observed = sequence_id,
                        !.id = sequence_id % MAX_SEQUENCE_ID,
                        !.retries = 0, !.posts = 1]]
        /\ UNCHANGED <<reader_vars, pure_vars>>

Finish(c, seen, result) ==
    /\ calls' = [calls EXCEPT ![c] =
          [@ EXCEPT !.pc = "done", !.responses = Append(@, seen), !.result = result]]
    /\ UNCHANGED <<sequence_id, reader_vars, pure_vars>>

\* send().await? resolves with a transport error.
SendFails(c) ==
    /\ calls[c].pc = "send"
    /\ Finish(c, Transport, ReqwestError)

\* error_for_status()? on a status that is not 2xx.
SendBadStatus(c) ==
    /\ calls[c].pc = "send"
    /\ Finish(c, Status, ReqwestError)

\* send().await resolves with a 2xx status: json() starts reading the body.
SendOk(c) ==
    /\ calls[c].pc = "send"
    /\ calls' = [calls EXCEPT ![c].pc = "body"]
    /\ UNCHANGED <<sequence_id, reader_vars, pure_vars>>

\* json().await? fails while reading the body.
BodyFails(c) ==
    /\ calls[c].pc = "body"
    /\ Finish(c, Transport, ReqwestError)

\* json().await resolves: the body is decoded and the loop body runs up to
\* the sleep or the break and the code after the loop.
BodyRead(c) ==
    \E body \in Bodies :
        LET response == Decode(body)
            call == calls[c]
        IN  /\ call.pc = "body"
            /\ IF response.tag = "Invalid"
               THEN Finish(c, body, ReqwestError)
               ELSE IF ShouldRetry(call.retries, response)
               THEN /\ calls' = [calls EXCEPT ![c] =
                          [@ EXCEPT !.pc = "sleep",
                                    !.responses = Append(@, body),
                                    !.slept = Append(@, BackoffMillis(call.retries))]]
                    /\ UNCHANGED <<sequence_id, reader_vars, pure_vars>>
               ELSE Finish(c, body, AfterLoop(call.commands_len, response))

Wake_redraws_id(c) ==
    /\ calls[c].pc = "sleep"
    /\ sequence_id' = (sequence_id + 1) % AtomicU64Mod
    /\ calls' = [calls EXCEPT ![c] =
          [@ EXCEPT !.pc = "send", !.retries = @ + 1, !.posts = @ + 1,
                    !.id = sequence_id % MAX_SEQUENCE_ID]]
    /\ UNCHANGED <<reader_vars, pure_vars>>

\* The backoff sleep is over: retries += 1; continue; the next POST is sent.
Wake(c) ==
    /\ calls[c].pc = "sleep"
    /\ calls' = [calls EXCEPT ![c] =
          [@ EXCEPT !.pc = "send", !.retries = @ + 1, !.posts = @ + 1]]
    /\ UNCHANGED <<sequence_id, reader_vars, pure_vars>>

\* The caller drops the future at a suspension point.
Abandon(c) ==
    /\ calls[c].pc \in {"send", "body", "sleep"}
    /\ calls' = [calls EXCEPT ![c].pc = "dropped"]
    /\ UNCHANGED <<sequence_id, reader_vars, pure_vars>>

ClientNext ==
    \E c \in Calls :
        \/ Start(c)
        \/ SendFails(c)
        \/ SendBadStatus(c)
        \/ SendOk(c)
        \/ BodyFails(c)
        \/ BodyRead(c)
        \/ Wake(c)
        \/ Abandon(c)

\* ------------------------------------------------------------ verify-file
\* mega-cli's verify-file command: a FileValidator fed straight from a file.
\* `upstream` is the file's contents, `output` the bytes read and fed so far,
\* `upstream_eof` says that the read loop is over, `last` is what exec returned.
VERIFY_BUFFER_LEN == 1024 * 1024

Files ==
    UNION {{f \in [1..n -> Byte] : Cardinality({i \in 1..n : f[i] # 0}) <= MaxOnes} :
              n \in 0..MaxFileLen}

VerifyInit ==
    /\ \E fk \in FileKeys : ReaderNew(fk, TRUE)
    /\ upstream \in Files
    /\ upstream_eof = FALSE
    /\ output = <<>>
    /\ last = [kind |-> "None"]
    /\ mac_failed = FALSE

\* file.read returns n > 0 bytes, which are fed.
VerifyRead ==
    \E n \in 1..Min(VERIFY_BUFFER_LEN, Len(upstream) - Len(output)) :
        LET buffer == SubSeq(upstream, Len(output) + 1, Len(output) + n)
        IN  /\ ~upstream_eof
            /\ validator' = <<feed(validator[1], buffer)>>
            /\ output' = output \o buffer
            /\ UNCHANGED <<file_key, cipher, upstream, upstream_eof, last, mac_failed,
                           sequence_id, calls, pure_vars>>

\* file.read returns 0 at the end of the file: break, then finish()?.
VerifyFinish ==
    /\ ~upstream_eof
    /\ Len(output) = Len(upstream)
    /\ upstream_eof' = TRUE
    /\ last' = finish(validator[1])
    /\ UNCHANGED <<file_key, cipher, validator, upstream, output, mac_failed,
                   sequence_id, calls, pure_vars>>

\* file.read fails: exec returns the error.
VerifyReadError ==
    /\ ~upstream_eof
    /\ upstream_eof' = TRUE
    /\ last' = [kind |-> "Err"]
    /\ UNCHANGED <<file_key, cipher, validator, upstream, output, mac_failed,
                   sequence_id, calls, pure_vars>>

VerifyNext ==
    \/ VerifyRead
    \/ VerifyFinish
    \/ VerifyReadError

\* ---------------------------------------------------- FileValidator alone
\* A FileValidator fed slices of a file by its user, of any length from 0.
\* `upstream` is the file, `output` the bytes fed so far.
LongFiles == {[i \in 1..LongFileLen |-> 0]}

FeedInit ==
    /\ \E fk \in FileKeys : ReaderNew(fk, TRUE)
    /\ upstream \in LongFiles
    /\ upstream_eof = FALSE
    /\ output = <<>>
    /\ last = [kind |-> "None"]
    /\ mac_failed = FALSE

\* validator.feed(input)
Feed ==
    \E n \in 0..Min(Len(upstream) - Len(output), MaxFeedLen) :
        LET input == SubSeq(upstream, Len(output) + 1, Len(output) + n)
        IN  /\ validator' = <<feed(validator[1], input)>>
            /\ output' = output \o input
            /\ last' = [kind |-> "Ok"]
            /\ UNCHANGED <<file_key, cipher, upstream, upstream_eof, mac_failed,
                           sequence_id, calls, pure_vars>>

\* ------------------------------------------- older validating reader
\* DownloadValidateReader and its FileValidator in src/src/easy/reader.rs
\* (src/src/easy.rs holds the same read path inline).  The cipher, the chunk
\* schedule and process_block are those above.

\* FileValidator::feed: a feed too short to complete the staged block copies
\* its bytes behind the staged ones and returns; buffer_end is not changed.
easy_feed(v, input) ==
    IF v.buffer_end # 0
    THEN LET need_to_consume == BlockLen - v.buffer_end
             consume_input_len == Min(need_to_consume, Len(input))
             buffer == [i \in 1..BlockLen |->
                          IF i > v.buffer_end /\ i <= v.buffer_end + consume_input_len
                          THEN input[i - v.buffer_end] ELSE v.buffer[i]]
         IN  IF consume_input_len < need_to_consume
             THEN [v EXCEPT !.buffer = buffer]
             ELSE feed_blocks([process_block(v, buffer) EXCEPT !.buffer = buffer,
                                                               !.buffer_end = 0],
                              SubSeq(input, need_to_consume + 1, Len(input)))
    ELSE feed_blocks(v, input)

\* FileValidator::finish: takes &mut self and folds the open chunk into
\* self.file_mac before the comparison; the staged bytes are not looked at.
easy_finish(v) ==
    LET file_mac == from_be_bytes(aes_cbc_encrypt_u128(v.file_key.key,
                        to_be_bytes(Xor(v.file_mac, v.chunk_mac), BlockLen)))
    IN  [validator |-> [v EXCEPT !.file_mac = file_mac],
         result |-> finish_compare(v, file_mac)]

\* DownloadValidateReader::new.
EasyInit ==
    /\ \E fk \in FileKeys : ReaderNew(fk, TRUE)
    /\ upstream = <<>>
    /\ upstream_eof = FALSE
    /\ output = <<>>
    /\ last = [kind |-> "None"]
    /\ mac_failed = FALSE
    /\ validated = FALSE

\* The part of poll_read after the inner reader has filled new_bytes.
EasyPollReadReady(new_bytes) ==
    LET new_bytes_len == Len(new_bytes)
        ks == apply_keystream(cipher, new_bytes)
        fin == easy_finish(validator[1])
    IN  /\ cipher' = ks.cipher
        /\ IF new_bytes_len = 0
           THEN /\ validator' = <<fin.validator>>
                /\ last' = IF fin.result.kind # "Ok" THEN fin.result
                           ELSE [kind |-> "Ok", n |-> 0]
                /\ output' = output
                /\ mac_failed' = (mac_failed \/ (fin.result.kind # "Ok" /\ upstream_eof'))
                /\ validated' = (validated \/ (fin.result.kind = "Ok" /\ upstream_eof'))
           ELSE /\ validator' = <<easy_feed(validator[1], ks.data)>>
                /\ last' = [kind |-> "Ok", n |-> new_bytes_len]
                /\ output' = output \o ks.data
                /\ UNCHANGED <<mac_failed, validated>>
        /\ UNCHANGED <<file_key, client_vars, chunk_vars, key_vars, url_vars,
                       builder_vars, node_vars, batch_vars, get_vars, ls_vars,
                       folder_vars>>

\* poll_read, the inner reader delivering n >= 1 bytes.
EasyPollReadData ==
    \E n \in 1..Min(MaxCap, MAX_LEN) :
        \E new_bytes \in [1..n -> Byte] :
            /\ ~upstream_eof
            /\ Len(upstream) + n <= MaxEasyLen
            /\ upstream' = upstream \o new_bytes
            /\ upstream_eof' = upstream_eof
            /\ EasyPollReadReady(new_bytes)

\* poll_read, the inner reader reporting end-of-stream (0 bytes).
EasyPollReadEof ==
    /\ upstream' = upstream
    /\ upstream_eof' = TRUE
    /\ EasyPollReadReady(<<>>)

\* poll_read, the inner reader returning Pending or an error.
EasyPollReadEarly ==
    \E kind \in {"Pending", "Err"} :
        /\ kind = "Err" => ~upstream_eof
        /\ last' = [kind |-> kind]
        /\ UNCHANGED <<file_key, cipher, validator, upstream, upstream_eof, output,
                       mac_failed, validated, client_vars, chunk_vars, key_vars,
                       url_vars, builder_vars, node_vars, batch_vars, get_vars,
                       ls_vars, folder_vars>>

EasyNext ==
    \/ EasyPollReadData
    \/ EasyPollReadEof
    \/ EasyPollReadEarly

\* ------------------------------------------------- mega-cli get: one file
\* download_file of src/mega-cli/src/commands/get.rs from File::create on.
\* `upstream` is the body the download url serves, `output` the plaintext
\* the reader has handed to tokio::io::copy so far.
GetParked ==
    /\ get_pc = "idle"
    /\ temp_output = <<>>
    /\ final_output = <<>>
    /\ copy_buf = <<>>

\* The attributes are decoded and the output path chosen; nothing is on disk.
GetInit ==
    /\ \E fk \in FileKeys : ReaderNew(fk, TRUE)
    /\ upstream \in {f \in Files : Len(f) <= MaxGetLen}
    /\ upstream_eof = FALSE
    /\ output = <<>>
    /\ last = [kind |-> "None"]
    /\ mac_failed = FALSE
    /\ get_pc = "create"
    /\ temp_output = <<>>
    /\ final_output = <<>>
    /\ copy_buf = <<>>

\* What a step of download_file leaves alone besides the reader and files.
GetFrame ==
    UNCHANGED <<file_key, mac_failed, client_vars, chunk_vars, key_vars, url_vars,
                builder_vars, node_vars, batch_vars, easy_vars, ls_vars, folder_vars>>

\* A statement that touches neither the reader nor the files: it succeeds
\* and download_file moves on, or fails and `?` returns the error.
GetStatement(from, to) ==
    /\ get_pc = from
    /\ \E ok \in BOOLEAN : get_pc' = IF ok THEN to ELSE "failed"
    /\ UNCHANGED <<cipher, validator, upstream, upstream_eof, output, last,
                   temp_output, final_output, copy_buf>>
    /\ GetFrame

\* File::create(&temp_output)
GetCreate ==
    /\ get_pc = "create"
    /\ \E ok \in BOOLEAN :
           /\ get_pc' = IF ok THEN "open" ELSE "failed"
           /\ temp_output' = IF ok THEN << <<>> >> ELSE temp_output
    /\ UNCHANGED <<cipher, validator, upstream, upstream_eof, output, last,
                   final_output, copy_buf>>
    /\ GetFrame

\* client.download_file(&file_key, url)
GetOpen == GetStatement("open", "copy")

\* copy polls the reader, which has n >= 1 more bytes of the body.
GetCopyReadData ==
    \E n \in 1..Min(MaxCap, Len(upstream) - Len(output)) :
        LET new_bytes == SubSeq(upstream, Len(output) + 1, Len(output) + n)
            ks == apply_keystream(cipher, new_bytes)
        IN  /\ get_pc = "copy"
            /\ ~upstream_eof
            /\ copy_buf = <<>>
            /\ cipher' = ks.cipher
            /\ validator' = <<feed(validator[1], ks.data)>>
            /\ output' = output \o ks.data
            /\ copy_buf' = ks.data
            /\ last' = [kind |-> "Ok", n |-> n]
            /\ UNCHANGED <<get_pc, upstream, upstream_eof, temp_output, final_output>>
            /\ GetFrame

GetCopyReadEof_unchecked ==
    /\ get_pc = "copy"
    /\ ~upstream_eof
    /\ copy_buf = <<>>
    /\ Len(output) = Len(upstream)
    /\ upstream_eof' = TRUE
    /\ last' = finish(validator[1])
    /\ get_pc' = "flush"
    /\ UNCHANGED <<cipher, validator, upstream, output, temp_output, final_output,
                   copy_buf, mac_failed>>
    /\ UNCHANGED <<file_key, client_vars, chunk_vars, key_vars, url_vars,
                   builder_vars, node_vars, batch_vars, easy_vars, ls_vars, folder_vars>>

\* copy polls the reader at the end of the body: the reader runs finish();
\* Ok(0) ends the copy loop, MacMismatch is returned through copy's `?`.
GetCopyReadEof ==
    /\ get_pc = "copy"
    /\ ~upstream_eof
    /\ copy_buf = <<>>
    /\ Len(output) = Len(upstream)
    /\ upstream_eof' = TRUE
    /\ last' = finish(validator[1])
    /\ get_pc' = IF last'.kind = "Ok" THEN "flush" ELSE "failed"
    /\ mac_failed' = (last'.kind # "Ok")
    /\ UNCHANGED <<cipher, validator, upstream, output, temp_output, final_output,
                   copy_buf>>
    /\ UNCHANGED <<file_key, client_vars, chunk_vars, key_vars, url_vars,
                   builder_vars, node_vars, batch_vars, easy_vars, ls_vars, folder_vars>>

\* copy polls the reader and the body stream fails.
GetCopyReadError ==
    /\ get_pc = "copy"
    /\ ~upstream_eof
    /\ copy_buf = <<>>
    /\ last' = [kind |-> "Err"]
    /\ get_pc' = "failed"
    /\ UNCHANGED <<cipher, validator, upstream, upstream_eof, output, temp_output,
                   final_output, copy_buf>>
    /\ GetFrame

\* copy writes k >= 1 of the buffered bytes to the file, or the write fails.
GetCopyWrite ==
    /\ get_pc = "copy"
    /\ copy_buf # <<>>
    /\ \/ \E k \in 1..Len(copy_buf) :
              /\ temp_output' = <<temp_output[1] \o SubSeq(copy_buf, 1, k)>>
              /\ copy_buf' = SubSeq(copy_buf, k + 1, Len(copy_buf))
              /\ get_pc' = get_pc
       \/ /\ get_pc' = "failed"
          /\ UNCHANGED <<temp_output, copy_buf>>
    /\ UNCHANGED <<cipher, validator, upstream, upstream_eof, output, last, final_output>>
    /\ GetFrame

\* output_file.flush() and output_file.sync_all()
GetFlush == GetStatement("flush", "sync_all")
GetSyncAll == GetStatement("sync_all", "rename")

\* tokio::fs::rename(temp_output, output)
GetRename ==
    /\ get_pc = "rename"
    /\ \E ok \in BOOLEAN :
           /\ get_pc' = IF ok THEN "join" ELSE "failed"
           /\ final_output' = IF ok THEN temp_output ELSE final_output
           /\ temp_output' = IF ok THEN <<>> ELSE temp_output
    /\ UNCHANGED <<cipher, validator, upstream, upstream_eof, output, last, copy_buf>>
    /\ GetFrame

\* progress_bar.finish() and progress_bar_tick_handle.await?
GetJoin == GetStatement("join", "done")

GetNext ==
    \/ GetCreate
    \/ GetOpen
    \/ GetCopyReadData
    \/ GetCopyReadEof
    \/ GetCopyReadError
    \/ GetCopyWrite
    \/ GetFlush
    \/ GetSyncAll
    \/ GetRename
    \/ GetJoin

\* ------------------------------------------------------------ mega-cli ls
\* exec of src/mega-cli/src/commands/ls.rs after the url is parsed.  Node i
\* of the response has id i; 0 is an id no node of the response has.  A
\* node's name is its id, and its attributes and key decode.
LsIds == 0..MaxNodes

LsNodeLists ==
    UNION {[1..n -> [parent_id : LsIds, kind : {"File", "Directory"}]] : n \in 0..MaxNodes}

LsParked ==
    /\ ls_options = [recursive |-> FALSE, unsorted |-> FALSE]
    /\ ls_parent_id = <<>>
    /\ ls_nodes = <<>>
    /\ ls_pc = "idle"
    /\ ls_stack = <<>>
    /\ ls_children = {}
    /\ ls_entries = <<>>

LsInit ==
    /\ ls_options \in [recursive : BOOLEAN, unsorted : BOOLEAN]
    /\ ls_parent_id \in {<<>>} \cup {<<id>> : id \in LsIds}
    /\ ls_nodes \in LsNodeLists
    /\ ls_pc = "fetch"
    /\ ls_stack = <<>>
    /\ ls_children = {}
    /\ ls_entries = <<>>

LsFrame ==
    UNCHANGED <<ls_options, ls_parent_id, ls_nodes, reader_vars, client_vars, chunk_vars,
                key_vars, url_vars, builder_vars, node_vars, batch_vars, easy_vars,
                get_vars, folder_vars>>

\* client.fetch_nodes(...).await? and the set-up of the walk.
LsFetch ==
    /\ ls_pc = "fetch"
    /\ \E ok \in BOOLEAN :
           IF ~ok THEN ls_pc' = "failed" /\ UNCHANGED ls_stack
           ELSE IF ls_options.recursive /\ ls_parent_id # <<>>
           THEN ls_pc' = "walk" /\ ls_stack' = <<ls_parent_id[1]>>
           ELSE ls_pc' = "list" /\ UNCHANGED ls_stack
    /\ UNCHANGED <<ls_children, ls_entries>>
    /\ LsFrame

\* The ids the for loop of one `while let` turn pushes, in response order.
RECURSIVE LsPushes(_)
LsPushes(i) ==
    IF i = 0 THEN <<>>
    ELSE IF ls_nodes[i].parent_id \in ls_children /\ ls_nodes[i].kind = "Directory"
    THEN Append(LsPushes(i - 1), i)
    ELSE LsPushes(i - 1)

\* One turn of `while let Some(node_id) = stack.pop()`.
LsWalk ==
    /\ ls_pc = "walk"
    /\ ls_stack # <<>>
    /\ ls_stack' = Front(ls_stack) \o LsPushes(Len(ls_nodes))
    /\ ls_children' = ls_children \cup {Last(ls_stack)}
    /\ UNCHANGED <<ls_pc, ls_entries>>
    /\ LsFrame

\* The walk ends when the stack is empty.
LsWalkEnd ==
    /\ ls_pc = "walk"
    /\ ls_stack = <<>>
    /\ ls_pc' = "list"
    /\ UNCHANGED <<ls_stack, ls_children, ls_entries>>
    /\ LsFrame

\* The test that `continue`s past a node in the entries loop.
LsSkipped(i) ==
    /\ ls_parent_id # <<>>
    /\ \/ ls_options.recursive /\ ls_nodes[i].parent_id \notin ls_children
       \/ ls_nodes[i].parent_id # ls_parent_id[1]

RECURSIVE LsCollect(_)
LsCollect(i) ==
    IF i = 0 THEN <<>>
    ELSE IF LsSkipped(i) THEN LsCollect(i - 1)
    ELSE Append(LsCollect(i - 1), i)

\* entries.sort_by(name): a name is an id, and ids are distinct.
RECURSIVE SortByName(_)
SortByName(q) ==
    IF q = <<>> THEN <<>>
    ELSE LET least == CHOOSE i \in 1..Len(q) : \A j \in 1..Len(q) : q[i] <= q[j]
         IN  <<q[least]>> \o SortByName(SubSeq(q, 1, least - 1) \o SubSeq(q, least + 1, Len(q)))

\* The entries loop, the sort and the printing.
LsList ==
    /\ ls_pc = "list"
    /\ ls_entries' = IF ls_options.unsorted THEN LsCollect(Len(ls_nodes))
                     ELSE SortByName(LsCollect(Len(ls_nodes)))
    /\ ls_pc' = "done"
    /\ UNCHANGED <<ls_stack, ls_children>>
    /\ LsFrame

LsNext ==
    \/ LsFetch
    \/ LsWalk
    \/ LsWalkEnd
    \/ LsList

\* ---------------------------------------------- mega-cli get: one folder
\* download_folder of src/mega-cli/src/commands/get.rs.  Folder ids are
\* 0..MaxFolders - 1 and 0 is args.root_folder_id.  A child is a folder with
\* one of these ids or a file; args.children maps an id to nothing (<<>>)
\* or to a list (<<list>>) of at most two children, in any combination:
\* lists that name their own parent, the root, or the same id twice.
FolderIds == 0..(MaxFolders - 1)
root_folder_id == 0

Kids ==
    {[kind |-> "File", id |-> MaxFolders]} \cup {[kind |-> "Folder", id |-> q] : q \in FolderIds}
ChildLists == {<<>>} \cup {<<c>> : c \in Kids} \cup {<<c, d>> : c \in Kids, d \in Kids}

FolderParked ==
    /\ children = <<>>
    /\ stack = <<>>
    /\ id_to_path = {}
    /\ folder_pc = "idle"
    /\ cur_children = <<>>
    /\ processed = <<>>
    /\ reached = 0
    /\ downloaded = 0

FolderInit ==
    /\ children \in [FolderIds -> {<<>>} \cup {<<list>> : list \in ChildLists}]
    /\ stack = <<>>
    /\ id_to_path = {}
    /\ folder_pc = "create"
    /\ cur_children = <<>>
    /\ processed = [p \in FolderIds |-> <<>>]
    /\ reached = 0
    /\ downloaded = 0

FolderFrame ==
    UNCHANGED <<reader_vars, client_vars, chunk_vars, key_vars, url_vars, builder_vars,
                node_vars, batch_vars, easy_vars, get_vars, ls_vars>>

\* create_dir_all(&temp_output), then id_to_path and stack are set up.
FolderCreate ==
    /\ folder_pc = "create"
    /\ \E ok \in BOOLEAN :
           IF ok
           THEN /\ id_to_path' = {root_folder_id}
                /\ stack' = <<root_folder_id>>
                /\ folder_pc' = "walk"
           ELSE /\ folder_pc' = "failed"
                /\ UNCHANGED <<id_to_path, stack>>
    /\ UNCHANGED <<children, cur_children, processed, reached, downloaded>>
    /\ FolderFrame

\* The pc after the for loop has moved on to the list `rest`.
AfterChild(rest) == IF rest = <<>> THEN "walk" ELSE "children"

FolderPop_keeps_entry ==
    LET parent_node_id == Last(stack)
    IN  /\ folder_pc = "walk"
        /\ stack # <<>>
        /\ stack' = Front(stack)
        /\ IF children[parent_node_id] = <<>>
           THEN UNCHANGED <<children, folder_pc, cur_children, processed>>
           ELSE /\ children' = children
                /\ IF parent_node_id \notin id_to_path
                   THEN folder_pc' = "failed" /\ UNCHANGED <<cur_children, processed>>
                   ELSE /\ cur_children' = children[parent_node_id][1]
                        /\ processed' = [processed EXCEPT ![parent_node_id] =
                                             Append(@, children[parent_node_id][1])]
                        /\ folder_pc' = AfterChild(cur_children')
        /\ UNCHANGED <<id_to_path, reached, downloaded>>
        /\ FolderFrame

\* One turn of `while let Some(parent_node_id) = stack.pop()` up to the
\* for loop: the child list is removed from args.children (no list:
\* continue) and the parent's path looked up.
FolderPop ==
    LET parent_node_id == Last(stack)
    IN  /\ folder_pc = "walk"
        /\ stack # <<>>
        /\ stack' = Front(stack)
        /\ IF children[parent_node_id] = <<>>
           THEN UNCHANGED <<children, folder_pc, cur_children, processed>>
           ELSE /\ children' = [children EXCEPT ![parent_node_id] = <<>>]
                /\ IF parent_node_id \notin id_to_path
                   THEN folder_pc' = "failed" /\ UNCHANGED <<cur_children, processed>>
                   ELSE /\ cur_children' = children[parent_node_id][1]
                        /\ processed' = [processed EXCEPT ![parent_node_id] =
                                             Append(@, children[parent_node_id][1])]
                        /\ folder_pc' = AfterChild(cur_children')
        /\ UNCHANGED <<id_to_path, reached, downloaded>>
        /\ FolderFrame

\* The for loop at a folder child: create_dir_all(&node_path)?, then the
\* child's path is recorded and its id pushed.
FolderChildFolder ==
    /\ folder_pc = "children"
    /\ cur_children[1].kind = "Folder"
    /\ \E ok \in BOOLEAN :
           IF ok
           THEN /\ id_to_path' = id_to_path \cup {cur_children[1].id}
                /\ stack' = Append(stack, cur_children[1].id)
                /\ cur_children' = Tail(cur_children)
                /\ folder_pc' = AfterChild(cur_children')
           ELSE /\ folder_pc' = "failed"
                /\ UNCHANGED <<id_to_path, stack, cur_children>>
    /\ UNCHANGED <<children, processed, reached, downloaded>>
    /\ FolderFrame

\* The for loop at a file child: download_file(...).await?
FolderChildFile ==
    /\ folder_pc = "children"
    /\ cur_children[1].kind = "File"
    /\ reached' = reached + 1
    /\ \E ok \in BOOLEAN :
           IF ok
           THEN /\ downloaded' = downloaded + 1
                /\ cur_children' = Tail(cur_children)
                /\ folder_pc' = AfterChild(cur_children')
           ELSE /\ folder_pc' = "failed"
                /\ UNCHANGED <<downloaded, cur_children>>
    /\ UNCHANGED <<children, stack, id_to_path, processed>>
    /\ FolderFrame

\* The stack is empty: rename(&temp_output, &output)
FolderRename ==
    /\ folder_pc = "walk"
    /\ stack = <<>>
    /\ \E ok \in BOOLEAN : folder_pc' = IF ok THEN "done" ELSE "failed"
    /\ UNCHANGED <<children, stack, id_to_path, cur_children, processed, reached,
                   downloaded>>
    /\ FolderFrame

FolderNext ==
    \/ FolderCreate
    \/ FolderPop
    \/ FolderChildFolder
    \/ FolderChildFile
    \/ FolderRename

\* -------------------------------------------------------- ChunkIter alone
\* A ChunkIter driven by next() calls, as in test::chunk_iter.
ChunkInit ==
    /\ chunk_iter = ChunkIterNew
    /\ chunk_item = <<>>
    /\ chunk_count = 0

ChunkNext ==
    LET n == ChunkIterNext(chunk_iter)
    IN  /\ chunk_count < MaxChunks
        /\ chunk_iter' = n.iter
        /\ chunk_item' = <<n.item>>
        /\ chunk_count' = chunk_count + 1
        /\ UNCHANGED <<reader_vars, client_vars, cur_key, cur_text, cur_bytes, cur_result,
                       extra_vars>>

\* ---------------------------------------------------------------- key codec
\* The key types work on bytes and on base64 symbols.  A base64 symbol holds
\* 3/4 of a byte, so here a byte is KeyByteBits = 4 bits and a symbol
\* SymBits = 3 bits (8 and 6 in the code), and a key (u128) is KEY_SIZE = 4
\* bytes (16 in the code), which makes u128 a 16-bit and u64 an 8-bit number.
KEY_SIZE == 4
KeyByteBits == 4
SymBits == 3
KeyByteMod == 2 ^ KeyByteBits
SymMod == 2 ^ SymBits
\* std::mem::size_of::<u64>()
U64_SIZE == KEY_SIZE \div 2
KeyU64Mod == KeyByteMod ^ U64_SIZE
KeyU128Mod == KeyByteMod ^ KEY_SIZE

\* uN::to_be_bytes and uN::from_be_bytes on these bytes.
key_to_be_bytes(x, n) == [i \in 1..n |-> (x \div (KeyByteMod ^ (n - i))) % KeyByteMod]

RECURSIVE key_from_be_bytes(_)
key_from_be_bytes(bytes) ==
    IF Len(bytes) = 0 THEN 0
    ELSE key_from_be_bytes(SubSeq(bytes, 1, Len(bytes) - 1)) * KeyByteMod
         + bytes[Len(bytes)]

\* The length of the unpadded base64 of n bytes.
Base64Len(n) == (n * KeyByteBits + SymBits - 1) \div SymBits

\* BASE64_LEN of file_key.rs (43) and of folder_key.rs (22).
FILE_KEY_BASE64_LEN == Base64Len(2 * KEY_SIZE)
FOLDER_KEY_BASE64_LEN == Base64Len(KEY_SIZE)
\* BASE64_DECODE_BUFFER_LEN: (BASE64_LEN * 2).div_ceil(4) * 3
DecodeBufferLen(base64_len) == ((base64_len * 2 + 3) \div 4) * 3

\* A character that is not in the URL-safe alphabet.
InvalidChar == SymMod
Chars == 0..SymMod

\* URL_SAFE_NO_PAD encoding: every 3 bytes make 4 symbols, a last group of
\* 1 or 2 bytes makes 2 or 3 symbols, its unused low bits zero.
RECURSIVE Base64Encode(_)
Base64Encode(bytes) ==
    IF Len(bytes) = 0 THEN <<>>
    ELSE LET take == Min(3, Len(bytes))
             nsym == Base64Len(take)
             v == key_from_be_bytes(SubSeq(bytes, 1, take))
                    * (2 ^ (nsym * SymBits - take * KeyByteBits))
         IN  [i \in 1..nsym |-> (v \div (SymMod ^ (nsym - i))) % SymMod]
             \o Base64Encode(SubSeq(bytes, take + 1, Len(bytes)))

\* The bytes of symbols that are known to decode: groups of 4 symbols, and
\* a last group of 2 or 3.
RECURSIVE Base64Bytes(_)
Base64Bytes(text) ==
    IF Len(text) = 0 THEN <<>>
    ELSE LET take == Min(4, Len(text))
             nbytes == (take * SymBits) \div KeyByteBits
             v == LET RECURSIVE val(_)
                      val(q) == IF Len(q) = 0 THEN 0
                                ELSE val(SubSeq(q, 1, Len(q) - 1)) * SymMod + q[Len(q)]
                  IN  val(SubSeq(text, 1, take))
         IN  key_to_be_bytes(v \div (2 ^ (take * SymBits - nbytes * KeyByteBits)), nbytes)
             \o Base64Bytes(SubSeq(text, take + 1, Len(text)))

\* The unused low bits of the last symbol group.
Base64TrailingBits(text) ==
    LET rem == Len(text) % 4
    IN  IF rem \in {2, 3}
        THEN LET nbytes == (rem * SymBits) \div KeyByteBits
             IN  text[Len(text)] % (2 ^ (rem * SymBits - nbytes * KeyByteBits))
        ELSE 0

Base64Decode_any_tail(text, buffer_len) ==
    IF \/ \E i \in 1..Len(text) : text[i] >= SymMod
       \/ Len(text) % 4 = 1
       \/ ((Len(text) + 3) \div 4) * 3 > buffer_len
    THEN [ok |-> FALSE, bytes |-> <<>>]
    ELSE [ok |-> TRUE, bytes |-> Base64Bytes(text)]

\* URL_SAFE_NO_PAD.decode_slice into a buffer of buffer_len bytes: an error
\* for a character outside the alphabet, a length that is 1 modulo 4, unused
\* bits that are not zero, or a buffer that is too small.
Base64Decode(text, buffer_len) ==
    IF \/ \E i \in 1..Len(text) : text[i] >= SymMod
       \/ Len(text) % 4 = 1
       \/ Base64TrailingBits(text) # 0
       \/ ((Len(text) + 3) \div 4) * 3 > buffer_len
    THEN [ok |-> FALSE, bytes |-> <<>>]
    ELSE [ok |-> TRUE, bytes |-> Base64Bytes(text)]

\* Keys: a FileKey, a FolderKey(key), or none.
NoKey == [variant |-> "None", key |-> 0, iv |-> 0, meta_mac |-> 0]
FileKey(key, iv, meta_mac) ==
    [variant |-> "File", key |-> key, iv |-> iv, meta_mac |-> meta_mac]
FolderKey(key) == [variant |-> "Folder", key |-> key, iv |-> 0, meta_mac |-> 0]

\* What a key operation returned: `kind` is Ok or the ParseError variant,
\* `wrap` the FileOrFolderKey variant or error that wraps it.
NoKeyResult ==
    [op |-> "None", input |-> <<>>, kind |-> "None", wrap |-> "", length |-> 0,
     value |-> NoKey, output |-> <<>>]
KeyOk(value) == [NoKeyResult EXCEPT !.kind = "Ok", !.value = value]
KeyErr(kind, length) == [NoKeyResult EXCEPT !.kind = kind, !.length = length]

from_encoded_bytes_le(input) ==
    LET rev(q) == [i \in 1..Len(q) |-> q[Len(q) + 1 - i]]
        n1 == key_from_be_bytes(rev(SubSeq(input, 1, KEY_SIZE)))
        n2 == key_from_be_bytes(rev(SubSeq(input, KEY_SIZE + 1, 2 * KEY_SIZE)))
        iv == SubSeq(input, KEY_SIZE + 1, KEY_SIZE + U64_SIZE)
        meta_mac == SubSeq(input, KEY_SIZE + U64_SIZE + 1, 2 * KEY_SIZE)
    IN  FileKey(Xor(n1, n2),
                (key_from_be_bytes(rev(iv)) * KeyU64Mod) % KeyU128Mod,
                key_from_be_bytes(rev(meta_mac)))

\* FileKey::from_encoded_bytes.
from_encoded_bytes(input) ==
    LET n1 == key_from_be_bytes(SubSeq(input, 1, KEY_SIZE))
        n2 == key_from_be_bytes(SubSeq(input, KEY_SIZE + 1, 2 * KEY_SIZE))
        iv == SubSeq(input, KEY_SIZE + 1, KEY_SIZE + U64_SIZE)
        meta_mac == SubSeq(input, KEY_SIZE + U64_SIZE + 1, 2 * KEY_SIZE)
    IN  FileKey(Xor(n1, n2),
                (key_from_be_bytes(iv) * KeyU64Mod) % KeyU128Mod,
                key_from_be_bytes(meta_mac))

to_encoded_bytes_plain_key(k) ==
    LET meta_mac_bytes == key_to_be_bytes(k.meta_mac, U64_SIZE)
        iv == key_to_be_bytes(k.iv \div KeyU64Mod, U64_SIZE)
    IN  key_to_be_bytes(k.key, KEY_SIZE) \o iv \o meta_mac_bytes

\* FileKey::to_encoded_bytes.
to_encoded_bytes(k) ==
    LET meta_mac_bytes == key_to_be_bytes(k.meta_mac, U64_SIZE)
        iv == key_to_be_bytes(k.iv \div KeyU64Mod, U64_SIZE)
        n2 == key_from_be_bytes(iv \o meta_mac_bytes)
        n1 == Xor(k.key, n2)
    IN  key_to_be_bytes(n1, KEY_SIZE) \o iv \o meta_mac_bytes

FileKey_from_str_any_length(input) ==
    LET decoded == Base64Decode(input, DecodeBufferLen(FILE_KEY_BASE64_LEN))
    IN  IF ~decoded.ok THEN KeyErr("Base64Decode", 0)
        ELSE IF Len(decoded.bytes) # KEY_SIZE * 2
        THEN KeyErr("InvalidLength", Len(decoded.bytes))
        ELSE KeyOk(from_encoded_bytes(decoded.bytes))

\* <FileKey as FromStr>::from_str.
FileKey_from_str(input) ==
    LET length == Len(input)
        decoded == Base64Decode(input, DecodeBufferLen(FILE_KEY_BASE64_LEN))
    IN  IF length # FILE_KEY_BASE64_LEN THEN KeyErr("InvalidBase64Length", length)
        ELSE IF ~decoded.ok THEN KeyErr("Base64Decode", 0)
        ELSE IF Len(decoded.bytes) # KEY_SIZE * 2
        THEN KeyErr("InvalidLength", Len(decoded.bytes))
        ELSE KeyOk(from_encoded_bytes(decoded.bytes))

\* <FolderKey as FromStr>::from_str.
FolderKey_from_str(input) ==
    LET length == Len(input)
        decoded == Base64Decode(input, DecodeBufferLen(FOLDER_KEY_BASE64_LEN))
    IN  IF length < FOLDER_KEY_BASE64_LEN THEN KeyErr("InvalidBase64Length", length)
        ELSE IF ~decoded.ok THEN KeyErr("Base64Decode", 0)
        ELSE IF Len(decoded.bytes) # KEY_SIZE
        THEN KeyErr("InvalidLength", Len(decoded.bytes))
        ELSE KeyOk(FolderKey(key_from_be_bytes(decoded.bytes)))

FileOrFolderKey_from_str_tries_both(input) ==
    LET file == FileKey_from_str(input)
        folder == FolderKey_from_str(input)
    IN  IF file.kind = "Ok" THEN [file EXCEPT !.wrap = "File"]
        ELSE IF folder.kind = "Ok" THEN [folder EXCEPT !.wrap = "Folder"]
        ELSE [folder EXCEPT !.wrap = "Folder"]

\* <FileOrFolderKey as FromStr>::from_str.
FileOrFolderKey_from_str(input) ==
    IF Len(input) = FILE_KEY_BASE64_LEN
    THEN [FileKey_from_str(input) EXCEPT !.wrap = "File"]
    ELSE IF Len(input) = FOLDER_KEY_BASE64_LEN
    THEN [FolderKey_from_str(input) EXCEPT !.wrap = "Folder"]
    ELSE KeyErr("InvalidKeyLength", Len(input))

\* <FileKey as Display>::fmt and <FolderKey as Display>::fmt: the encoded
\* bytes in base64, written through a buffer of BASE64_LEN symbols ("Panic"
\* stands for the expect() on a buffer that is too small).
FileKey_to_string(k) ==
    LET text == Base64Encode(to_encoded_bytes(k))
    IN  IF Len(text) > FILE_KEY_BASE64_LEN THEN <<InvalidChar>> ELSE text

FolderKey_to_string(k) ==
    LET text == Base64Encode(key_to_be_bytes(k.key, KEY_SIZE))
    IN  IF Len(text) > FOLDER_KEY_BASE64_LEN THEN <<InvalidChar>> ELSE text

\* <FileOrFolderKey as Display>::fmt.
FileOrFolderKey_to_string(k) ==
    IF k.variant = "File" THEN FileKey_to_string(k) ELSE FolderKey_to_string(k)

\* The keys, strings and encoded bytes the operations are driven with.
SampleU128 == {0, 4660, 43981, KeyU128Mod - 1}
SampleU64 == {0, 165, KeyU64Mod - 1}
SampleIvLow == {0, 1}
SampleKeys ==
    {FolderKey(k) : k \in SampleU128}
    \cup {FileKey(k, h * KeyU64Mod + l, m) :
            k \in SampleU128, h \in SampleU64, l \in SampleIvLow, m \in SampleU64}
SampleTexts ==
    {[i \in 1..n |-> c] : n \in 0..MaxTextLen, c \in {0, SymMod - 3, InvalidChar}}
SampleBytes ==
    {key_to_be_bytes(a, KEY_SIZE) \o key_to_be_bytes(b, KEY_SIZE) :
        a \in SampleU128 \ {0}, b \in SampleU128 \ {0}}

KeyParked ==
    /\ cur_key = NoKey
    /\ cur_text = <<>>
    /\ cur_bytes = <<>>
    /\ cur_result = NoKeyResult

KeyInit ==
    /\ cur_key \in SampleKeys
    /\ cur_text \in SampleTexts
    /\ cur_bytes = <<>>
    /\ cur_result = NoKeyResult

\* key.to_string()
KeyDisplay ==
    /\ cur_text' = FileOrFolderKey_to_string(cur_key)
    /\ UNCHANGED <<cur_key, cur_bytes, cur_result>>
    /\ UNCHANGED <<reader_vars, client_vars, chunk_iter, chunk_item, chunk_count, extra_vars>>

\* cur_text.parse::<FileKey>()
FileKeyFromStr ==
    /\ cur_result' = [FileKey_from_str(cur_text) EXCEPT
                         !.op = "FileKey::from_str", !.input = cur_text]
    /\ UNCHANGED <<cur_key, cur_text, cur_bytes>>
    /\ UNCHANGED <<reader_vars, client_vars, chunk_iter, chunk_item, chunk_count, extra_vars>>

\* cur_text.parse::<FolderKey>()
FolderKeyFromStr ==
    /\ cur_result' = [FolderKey_from_str(cur_text) EXCEPT
                         !.op = "FolderKey::from_str", !.input = cur_text]
    /\ UNCHANGED <<cur_key, cur_text, cur_bytes>>
    /\ UNCHANGED <<reader_vars, client_vars, chunk_iter, chunk_item, chunk_count, extra_vars>>

\* cur_text.parse::<FileOrFolderKey>()
FileOrFolderKeyFromStr ==
    /\ cur_result' = [FileOrFolderKey_from_str(cur_text) EXCEPT
                         !.op = "FileOrFolderKey::from_str", !.input = cur_text]
    /\ UNCHANGED <<cur_key, cur_text, cur_bytes>>
    /\ UNCHANGED <<reader_vars, client_vars, chunk_iter, chunk_item, chunk_count, extra_vars>>

\* FileKey::from_encoded_bytes(&bytes): the key in hand is now its result.
FromEncodedBytes ==
    \E bytes \in SampleBytes :
        /\ cur_bytes' = bytes
        /\ cur_key' = from_encoded_bytes(bytes)
        /\ cur_result' = [KeyOk(from_encoded_bytes(bytes)) EXCEPT
                             !.op = "from_encoded_bytes", !.input = bytes]
        /\ UNCHANGED cur_text
        /\ UNCHANGED <<reader_vars, client_vars, chunk_iter, chunk_item, chunk_count, extra_vars>>

\* cur_key.to_encoded_bytes()
ToEncodedBytes ==
    /\ cur_key.variant = "File"
    /\ cur_result' = [NoKeyResult EXCEPT !.op = "to_encoded_bytes", !.kind = "Ok",
                                         !.value = cur_key,
                                         !.output = to_encoded_bytes(cur_key)]
    /\ UNCHANGED <<cur_key, cur_text, cur_bytes>>
    /\ UNCHANGED <<reader_vars, client_vars, chunk_iter, chunk_item, chunk_count, extra_vars>>

KeyNext ==
    \/ KeyDisplay
    \/ FileKeyFromStr
    \/ FolderKeyFromStr
    \/ FileOrFolderKeyFromStr
    \/ FromEncodedBytes
    \/ ToEncodedBytes

\* --------------------------------------------------------------- share URLs
\* A Url as ParsedMegaUrl::try_from reads it: host_str() (<<>> is None),
\* path_segments() (<<>> is None, <<segments>> is Some) and fragment() (<<>> is
\* None, <<text>> is Some).  Path segments are only compared and copied, so
\* they are strings; the fragment is split and decoded, so it is a sequence
\* of characters: the base64 symbols, InvalidChar and Slash.
Slash == SymMod + 1
\* "file" and "folder", written with base64 symbols.
StrFile == <<5, 1>>
StrFolder == <<5, 6, 1>>

\* str::split_once at the last occurrence of ch.
SplitOnce_last(text, ch) ==
    LET at == {i \in 1..Len(text) : text[i] = ch}
    IN  IF at = {} THEN [found |-> FALSE, before |-> text, after |-> <<>>]
        ELSE LET i == CHOOSE j \in at : \A k \in at : k <= j
             IN  [found |-> TRUE,
                  before |-> SubSeq(text, 1, i - 1),
                  after |-> SubSeq(text, i + 1, Len(text))]

\* str::split_once: the text before and after the first occurrence of ch;
\* `found` is FALSE for None.
SplitOnce(text, ch) ==
    LET at == {i \in 1..Len(text) : text[i] = ch}
    IN  IF at = {} THEN [found |-> FALSE, before |-> text, after |-> <<>>]
        ELSE LET i == CHOOSE j \in at : \A k \in at : j <= k
             IN  [found |-> TRUE,
                  before |-> SubSeq(text, 1, i - 1),
                  after |-> SubSeq(text, i + 1, Len(text))]

\* What try_from returned: `kind` is File, Folder or Err; `error` is the
\* ParseMegaUrlError variant and `message` its &str or the key error's kind.
NoParsed ==
    [kind |-> "None", id |-> "", key |-> NoKey, child_data |-> <<>>,
     error |-> "", message |-> ""]
Generic(message) == [NoParsed EXCEPT !.kind = "Err", !.error = "Generic", !.message = message]
InvalidFileKey(source) ==
    [NoParsed EXCEPT !.kind = "Err", !.error = "InvalidFileKey", !.message = source.kind]
InvalidFolderKey(source) ==
    [NoParsed EXCEPT !.kind = "Err", !.error = "InvalidFolderKey", !.message = source.kind]
ParsedMegaFileUrl(file_id, key) ==
    [NoParsed EXCEPT !.kind = "File", !.id = file_id, !.key = key]
ParsedMegaFolderUrl(folder_id, folder_key, child_data) ==
    [NoParsed EXCEPT !.kind = "Folder", !.id = folder_id, !.key = folder_key,
                     !.child_data = child_data]
ParsedMegaFolderUrlChildData(is_file, node_id) ==
    [is_file |-> is_file, node_id |-> node_id]

\* The Some("file") arm.
try_from_file(u, path) ==
    IF Len(path) < 2 THEN Generic("missing file id path segment")
    ELSE IF Len(path) > 2 THEN Generic("expected the path to end, but it continued")
    ELSE IF u.fragment = <<>> THEN Generic("missing file key")
    ELSE LET file_key_raw == FileKey_from_str(u.fragment[1])
         IN  IF file_key_raw.kind # "Ok" THEN InvalidFileKey(file_key_raw)
             ELSE ParsedMegaFileUrl(path[2], file_key_raw.value)

try_from_folder_keeps_extra_segments(u, path) ==
    IF Len(path) < 2 THEN Generic("missing folder id path segment")
    ELSE IF u.fragment = <<>> THEN Generic("missing folder key")
    ELSE LET folder_key == FolderKey_from_str(SplitOnce(u.fragment[1], Slash).before)
         IN  IF folder_key.kind # "Ok" THEN InvalidFolderKey(folder_key)
             ELSE ParsedMegaFolderUrl(path[2], folder_key.value, <<>>)

\* The Some("folder") arm.
try_from_folder(u, path) ==
    IF Len(path) < 2 THEN Generic("missing folder id path segment")
    ELSE IF Len(path) > 2 THEN Generic("expected the path to end, but it continued")
    ELSE IF u.fragment = <<>> THEN Generic("missing folder key")
    ELSE LET split == SplitOnce(u.fragment[1], Slash)
             folder_key_raw == split.before
             rest == split.after
             child == SplitOnce(rest, Slash)
             kind == child.before
             node_id == child.after
             folder_key == FolderKey_from_str(folder_key_raw)
         IN  IF rest # <<>> /\ ~child.found THEN Generic("unknown fragment format")
             ELSE IF rest # <<>> /\ kind # StrFile /\ kind # StrFolder
             THEN Generic("unknown fragment path segment")
             ELSE IF folder_key.kind # "Ok" THEN InvalidFolderKey(folder_key)
             ELSE ParsedMegaFolderUrl(path[2], folder_key.value,
                      IF rest # <<>>
                      THEN <<ParsedMegaFolderUrlChildData(kind = StrFile, node_id)>>
                      ELSE <<>>)

\* <ParsedMegaUrl as TryFrom<&Url>>::try_from.
ParsedMegaUrl_try_from(u) ==
    IF u.host # <<"mega.nz">> THEN Generic("invalid host")
    ELSE IF u.path = <<>> THEN Generic("missing path")
    ELSE LET path == u.path[1]
         IN  IF Len(path) = 0 THEN Generic("missing path segment")
             ELSE IF path[1] = "file" THEN try_from_file(u, path)
             ELSE IF path[1] = "folder" THEN try_from_folder(u, path)
             ELSE Generic("unknown path segment")

\* The Urls parsed.  A Url with a host has a path of at least one segment
\* (the empty one for "https://mega.nz"); one without may have no path.
Segments == {"file", "folder", "", "MWsm3aBL"}
Paths == UNION {[1..n -> Segments] : n \in 1..3}
FileKeyTexts ==
    {FileKey_to_string(FileKey(4660, 165 * KeyU64Mod, 1)),
     FileKey_to_string(FileKey(0, 0, 0)),
     [i \in 1..FILE_KEY_BASE64_LEN |-> InvalidChar],
     <<0, 0>>}
FolderKeyTexts ==
    {FolderKey_to_string(FolderKey(43981)),
     FolderKey_to_string(FolderKey(0)),
     <<>>,
     <<0, 0>>,
     [i \in 1..FOLDER_KEY_BASE64_LEN |-> IF i = FOLDER_KEY_BASE64_LEN THEN 1 ELSE 0],
     [i \in 1..FOLDER_KEY_BASE64_LEN |-> IF i = 2 THEN InvalidChar ELSE 0],
     [i \in 1..FOLDER_KEY_BASE64_LEN + 1 |-> 0]}
NodeIds == {<<>>, <<4>>, <<4, Slash, 4>>}
Rests ==
    {<<>>, StrFile, StrFolder}
        \cup {kind \o <<Slash>> \o node_id :
                 kind \in {StrFile, StrFolder, <<4>>, <<>>}, node_id \in NodeIds}
Fragments ==
    FileKeyTexts \cup FolderKeyTexts
        \cup {k \o <<Slash>> \o rest : k \in FolderKeyTexts, rest \in Rests}
Schemes == {"https", "http"}
Urls ==
    {[scheme |-> s, host |-> <<h>>, path |-> <<p>>, fragment |-> f] :
        s \in Schemes, h \in {"mega.nz", "example.com"}, p \in Paths,
        f \in {<<>>} \cup {<<t>> : t \in Fragments}}
    \cup {[scheme |-> "https", host |-> <<>>, path |-> p, fragment |-> f] :
            p \in {<<>>, <<<<"folder", "MWsm3aBL">>>>},
            f \in {<<>>} \cup {<<t>> : t \in Fragments}}

UrlParked ==
    /\ url = [scheme |-> "https", host |-> <<>>, path |-> <<>>, fragment |-> <<>>]
    /\ parsed = NoParsed

UrlInit ==
    /\ url \in Urls
    /\ parsed = NoParsed

\* ParsedMegaUrl::try_from(&url)
TryFrom ==
    /\ parsed' = ParsedMegaUrl_try_from(url)
    /\ UNCHANGED <<url, reader_vars, client_vars, chunk_vars, key_vars, rest_vars, builder_vars,
                   node_vars, batch_vars>>

\* ----------------------------------------------------- easy get_attributes
\* Options are <<>> for None and <<x>> for Some(x).
GetAttributesBuilderNew ==
    [public_file_id |-> <<>>, node_id |-> <<>>, include_download_url |-> FALSE,
     reference_node_id |-> <<>>]

\* Command::GetAttributes as get_attributes builds it from the builder.
GetAttributesCommand(b) ==
    [a |-> "g",
     public_file_id |-> b.public_file_id,
     node_id |-> b.node_id,
     include_download_url |-> IF b.include_download_url THEN <<1>> ELSE <<>>]

\* What execute_commands(&[command], ..).await can give back: an error, or
\* one response entry, which is an error code or the data of some command.
ExecuteOutcomes ==
    {[ok |-> FALSE, error |-> "Reqwest", entry |-> <<>>],
     [ok |-> FALSE, error |-> "ApiError", entry |-> <<>>],
     [ok |-> FALSE, error |-> "ResponseLengthMismatch", entry |-> <<>>],
     [ok |-> TRUE, error |-> "", entry |-> [kind |-> "Error", data |-> ""]],
     [ok |-> TRUE, error |-> "", entry |-> [kind |-> "Ok", data |-> "GetAttributes"]],
     [ok |-> TRUE, error |-> "", entry |-> [kind |-> "Ok", data |-> "FetchNodes"]]}

\* The value of the future get_attributes returns, given what
\* execute_commands gave back.
GetAttributesResult(outcome) ==
    IF ~outcome.ok THEN [kind |-> "Err", error |-> outcome.error]
    ELSE IF outcome.entry.kind = "Error" THEN [kind |-> "Err", error |-> "ApiError"]
    ELSE IF outcome.entry.data # "GetAttributes"
    THEN [kind |-> "Err", error |-> "UnexpectedResponseDataType"]
    ELSE [kind |-> "Ok", error |-> ""]

NodeIdStrings == {"a", "b"}

BuilderParked ==
    /\ builder = GetAttributesBuilderNew
    /\ posted = <<>>
    /\ attributes = [kind |-> "None", error |-> ""]

\* GetAttributesBuilder::new()
BuilderInit == BuilderParked

\* builder.public_file_id(value)
SetPublicFileId ==
    \E value \in NodeIdStrings :
        /\ attributes.kind = "None"
        /\ builder' = [builder EXCEPT !.public_file_id = <<value>>]
        /\ UNCHANGED <<posted, attributes, reader_vars, client_vars, chunk_vars, key_vars, rest_vars,
                       url_vars, node_vars, batch_vars>>

\* builder.node_id(value)
SetNodeId ==
    \E value \in NodeIdStrings :
        /\ attributes.kind = "None"
        /\ builder' = [builder EXCEPT !.node_id = <<value>>]
        /\ UNCHANGED <<posted, attributes, reader_vars, client_vars, chunk_vars, key_vars, rest_vars,
                       url_vars, node_vars, batch_vars>>

\* builder.include_download_url(value)
SetIncludeDownloadUrl ==
    \E value \in BOOLEAN :
        /\ attributes.kind = "None"
        /\ builder' = [builder EXCEPT !.include_download_url = value]
        /\ UNCHANGED <<posted, attributes, reader_vars, client_vars, chunk_vars, key_vars, rest_vars,
                       url_vars, node_vars, batch_vars>>

\* builder.reference_node_id(value)
SetReferenceNodeId ==
    \E value \in NodeIdStrings :
        /\ attributes.kind = "None"
        /\ builder' = [builder EXCEPT !.reference_node_id = <<value>>]
        /\ UNCHANGED <<posted, attributes, reader_vars, client_vars, chunk_vars, key_vars, rest_vars,
                       url_vars, node_vars, batch_vars>>

\* client.get_attributes(builder).await: the builder is taken by value, the
\* command is built and handed to execute_commands with the reference node.
GetAttributes ==
    \E outcome \in ExecuteOutcomes :
        /\ attributes.kind = "None"
        /\ posted' = Append(posted, [commands |-> <<GetAttributesCommand(builder)>>,
                                     node |-> builder.reference_node_id])
        /\ attributes' = GetAttributesResult(outcome)
        /\ UNCHANGED <<builder, reader_vars, client_vars, chunk_vars, key_vars, rest_vars, url_vars,
                       node_vars, batch_vars>>

BuilderNext ==
    \/ SetPublicFileId
    \/ SetNodeId
    \/ SetIncludeDownloadUrl
    \/ SetReferenceNodeId
    \/ GetAttributes

\* ------------------------------------------------- node keys and attributes
\* FetchNodesNode::decode_attributes and decode_attributes of response.rs, on
\* the bytes and symbols of the key codec; an AES block is as long as a key.
\* The key strings have one more character, Colon.
Colon == SymMod + 2
AES_BLOCK_LEN == KEY_SIZE

Reverse(q) == [i \in 1..Len(q) |-> q[Len(q) + 1 - i]]

\* u128::to_ne_bytes and from_ne_bytes on a target of the given byte order.
Endians == {"little", "big"}
to_ne_bytes(x, endian) ==
    IF endian = "big" THEN key_to_be_bytes(x, KEY_SIZE)
    ELSE Reverse(key_to_be_bytes(x, KEY_SIZE))
from_ne_bytes(bytes, endian) ==
    IF endian = "big" THEN key_from_be_bytes(bytes)
    ELSE key_from_be_bytes(Reverse(bytes))

\* AES-128 on one block, as a keyed permutation of the block values.
AesDecryptBlock(key_bytes, block) ==
    LET k == key_from_be_bytes(key_bytes)
        c == key_from_be_bytes(block)
    IN  key_to_be_bytes((Xor(c, k) + k) % KeyU128Mod, KEY_SIZE)
AesEncryptBlock(key_bytes, block) ==
    LET k == key_from_be_bytes(key_bytes)
        x == key_from_be_bytes(block)
    IN  key_to_be_bytes(Xor((x + KeyU128Mod - k) % KeyU128Mod, k), KEY_SIZE)

XorBytes(a, b) == [i \in 1..Len(a) |-> Xor(a[i], b[i])]
BlockAt(data, i) == SubSeq(data, (i - 1) * AES_BLOCK_LEN + 1, i * AES_BLOCK_LEN)
ZeroBlock == [i \in 1..AES_BLOCK_LEN |-> 0]

\* Aes128EcbDec::decrypt_padded_mut::<NoPadding>: an error unless the data
\* is a whole number of blocks.
ecb_decrypt_no_padding(key_bytes, data) ==
    IF Len(data) % AES_BLOCK_LEN # 0 THEN [ok |-> FALSE, bytes |-> <<>>]
    ELSE [ok |-> TRUE,
          bytes |-> [j \in 1..Len(data) |->
                        AesDecryptBlock(key_bytes,
                            BlockAt(data, (j - 1) \div AES_BLOCK_LEN + 1))
                                [((j - 1) % AES_BLOCK_LEN) + 1]]]

\* ZeroPadding::unpad: a block without its trailing zero bytes.
RECURSIVE zero_unpad(_)
zero_unpad(block) ==
    IF Len(block) = 0 \/ block[Len(block)] # 0 THEN block
    ELSE zero_unpad(SubSeq(block, 1, Len(block) - 1))

\* Padding::unpad_blocks: only the last block is unpadded.
unpad_blocks(data) ==
    IF Len(data) = 0 THEN data
    ELSE SubSeq(data, 1, Len(data) - AES_BLOCK_LEN)
             \o zero_unpad(SubSeq(data, Len(data) - AES_BLOCK_LEN + 1, Len(data)))

\* Aes128CbcDec with a zero iv, decrypt_padded_mut::<ZeroPadding>.
cbc_decrypt_zero_padding(key_bytes, data) ==
    IF Len(data) % AES_BLOCK_LEN # 0 THEN [ok |-> FALSE, bytes |-> <<>>]
    ELSE [ok |-> TRUE,
          bytes |-> unpad_blocks(
                     [j \in 1..Len(data) |->
                        LET i == (j - 1) \div AES_BLOCK_LEN + 1
                            prev == IF i = 1 THEN ZeroBlock ELSE BlockAt(data, i - 1)
                        IN  XorBytes(AesDecryptBlock(key_bytes, BlockAt(data, i)), prev)
                                [((j - 1) % AES_BLOCK_LEN) + 1]])]

\* base64::decode_config into a Vec: no buffer to be too small.
Base64DecodeVec(text) == Base64Decode(text, Len(text) + 3)

\* std::str::from_utf8: bytes with the high bit clear are ASCII; the inputs
\* hold no multi-byte sequence, so a byte with the high bit set is invalid.
Utf8Valid(bytes) == \A i \in 1..Len(bytes) : bytes[i] < KeyByteMod \div 2

\* "MEGA".
MEGA == <<5, 4, 6, 1>>
StartsWith(text, prefix) ==
    /\ Len(text) >= Len(prefix)
    /\ SubSeq(text, 1, Len(prefix)) = prefix

\* serde_json::from_str::<FileAttributes>: the documents are {"n":<name>},
\* written as an opening byte, a one-byte name and a closing byte.
JsonDocument(name) == <<2, name, 3>>
JsonNames == {1, 7}
JsonFromStr(text) ==
    IF \E name \in (1..(KeyByteMod \div 2 - 1)) \ {2, 3} : text = JsonDocument(name)
    THEN [ok |-> TRUE, name |-> text[2]]
    ELSE [ok |-> FALSE, name |-> 0]

\* What decode_attributes returned: `key` is the node's unwrapped key when
\* the call got as far as having one (<<>> otherwise), `attributes` the
\* FileAttributes of an Ok.
NoDecoded ==
    [kind |-> "None", error |-> "", length |-> 0, key |-> <<>>, attributes |-> <<>>]
DecodeErr(error) == [NoDecoded EXCEPT !.kind = "Err", !.error = error]
InvalidKeyLength(length) ==
    [NoDecoded EXCEPT !.kind = "Err", !.error = "InvalidKeyLength", !.length = length]
DecodeOk(name) == [NoDecoded EXCEPT !.kind = "Ok", !.attributes = <<[name |-> name]>>]

decode_attributes_prefix_first(encoded_attributes, key, endian) ==
    LET encoded == Base64DecodeVec(encoded_attributes)
        decrypted == cbc_decrypt_zero_padding(to_ne_bytes(key, endian), encoded.bytes)
        text == decrypted.bytes
        json == JsonFromStr(SubSeq(text, Len(MEGA) + 1, Len(text)))
    IN  IF ~encoded.ok THEN DecodeErr("Base64Decode")
        ELSE IF ~decrypted.ok THEN DecodeErr("Decrypt")
        ELSE IF ~StartsWith(text, MEGA) THEN DecodeErr("MissingMegaPrefix")
        ELSE IF ~Utf8Valid(text) THEN DecodeErr("InvalidUtf8")
        ELSE IF ~json.ok THEN DecodeErr("Json")
        ELSE DecodeOk(json.name)

\* fn decode_attributes(encoded_attributes, key).
decode_attributes(encoded_attributes, key, endian) ==
    LET encoded == Base64DecodeVec(encoded_attributes)
        decrypted == cbc_decrypt_zero_padding(to_ne_bytes(key, endian), encoded.bytes)
        text == decrypted.bytes
        json == JsonFromStr(SubSeq(text, Len(MEGA) + 1, Len(text)))
    IN  IF ~encoded.ok THEN DecodeErr("Base64Decode")
        ELSE IF ~decrypted.ok THEN DecodeErr("Decrypt")
        ELSE IF ~Utf8Valid(text) THEN DecodeErr("InvalidUtf8")
        ELSE IF ~StartsWith(text, MEGA) THEN DecodeErr("MissingMegaPrefix")
        ELSE IF ~json.ok THEN DecodeErr("Json")
        ELSE DecodeOk(json.name)

unwrap_key_files_only(n) ==
    LET split == SplitOnce(n.key, Colon)
        key == Base64DecodeVec(split.after)
        decrypted == ecb_decrypt_no_padding(to_ne_bytes(n.folder_key, n.endian), key.bytes)
        key_len == Len(decrypted.bytes)
    IN  IF ~split.found THEN DecodeErr("KeyMissingHeader")
        ELSE IF ~key.ok THEN DecodeErr("Base64Decode")
        ELSE IF ~decrypted.ok THEN DecodeErr("Decrypt")
        ELSE IF n.kind = "Directory"
        THEN IF key_len # KEY_SIZE THEN InvalidKeyLength(key_len)
             ELSE [NoDecoded EXCEPT !.key = <<from_ne_bytes(decrypted.bytes, n.endian)>>]
        ELSE IF n.kind # "File" \/ key_len # 2 * KEY_SIZE THEN InvalidKeyLength(key_len)
        ELSE [NoDecoded EXCEPT !.key = <<from_encoded_bytes(decrypted.bytes).key>>]

\* The first half of FetchNodesNode::decode_attributes: the node's key, or
\* the error returned instead.
unwrap_key(n) ==
    LET split == SplitOnce(n.key, Colon)
        key == Base64DecodeVec(split.after)
        decrypted == ecb_decrypt_no_padding(to_ne_bytes(n.folder_key, n.endian), key.bytes)
        key_len == Len(decrypted.bytes)
    IN  IF ~split.found THEN DecodeErr("KeyMissingHeader")
        ELSE IF ~key.ok THEN DecodeErr("Base64Decode")
        ELSE IF ~decrypted.ok THEN DecodeErr("Decrypt")
        ELSE IF n.kind = "Directory"
        THEN IF key_len # KEY_SIZE THEN InvalidKeyLength(key_len)
             ELSE [NoDecoded EXCEPT !.key = <<from_ne_bytes(decrypted.bytes, n.endian)>>]
        ELSE IF key_len # 2 * KEY_SIZE THEN InvalidKeyLength(key_len)
        ELSE [NoDecoded EXCEPT !.key = <<from_encoded_bytes(decrypted.bytes).key>>]

\* FetchNodesNode::decode_attributes(&self, folder_key).
FetchNodesNode_decode_attributes(n) ==
    LET key == unwrap_key(n)
    IN  IF key.key = <<>> THEN key
        ELSE [decode_attributes(n.encoded_attributes, key.key[1], n.endian)
                 EXCEPT !.key = key.key]

\* The nodes decoded: what a server can send.  A key string is built from
\* the raw key by encrypting it under the folder key, an attribute string
\* from a text by encrypting it under the key the raw key stands for.
FetchNodesNodeKind == {"File", "Directory", "Root", "Inbox", "TrashBin"}

ecb_encrypt(key_bytes, data) ==
    [j \in 1..Len(data) |->
        AesEncryptBlock(key_bytes, BlockAt(data, (j - 1) \div AES_BLOCK_LEN + 1))
            [((j - 1) % AES_BLOCK_LEN) + 1]]

RECURSIVE cbc_encrypt(_, _, _)
cbc_encrypt(key_bytes, iv, data) ==
    IF Len(data) = 0 THEN <<>>
    ELSE LET block == AesEncryptBlock(key_bytes, XorBytes(BlockAt(data, 1), iv))
         IN  block \o cbc_encrypt(key_bytes, block,
                                  SubSeq(data, AES_BLOCK_LEN + 1, Len(data)))

zero_pad(text) ==
    text \o [i \in 1..((AES_BLOCK_LEN - (Len(text) % AES_BLOCK_LEN)) % AES_BLOCK_LEN) |-> 0]

RawKeys ==
    {key_to_be_bytes(4660, KEY_SIZE),
     to_encoded_bytes(FileKey(43981, 165 * KeyU64Mod, 1)),
     key_to_be_bytes(4660, KEY_SIZE) \o to_encoded_bytes(FileKey(43981, 0, 1))}

\* The key a raw key stands for.
RawKeyValue(raw, endian) ==
    IF Len(raw) = KEY_SIZE THEN from_ne_bytes(raw, endian)
    ELSE from_encoded_bytes(SubSeq(raw, 1, 2 * KEY_SIZE)).key

KeyStrings(raw, folder_key, endian) ==
    LET wrapped == ecb_encrypt(to_ne_bytes(folder_key, endian), raw)
        text == Base64Encode(wrapped)
    IN  {<<1, Colon>> \o text,
         <<Colon>> \o text,
         text,
         <<1, Colon, InvalidChar>> \o text,
         <<1, Colon>> \o Base64Encode(SubSeq(wrapped, 1, Len(wrapped) - 1))}

AttributeTexts ==
    {MEGA \o JsonDocument(name) : name \in JsonNames}
        \cup {MEGA \o <<2, 1>>,
              MEGA,
              <<>>,
              <<5, 4, 6, 2>> \o JsonDocument(1),
              JsonDocument(1),
              MEGA \o <<2, KeyByteMod - 1, 3>>,
              <<5, 4, KeyByteMod - 1, 1>> \o JsonDocument(1),
              MEGA \o JsonDocument(1) \o <<0, 1>>,
              MEGA \o JsonDocument(1) \o <<0>> \o ZeroBlock}

AttributeStrings(text, key, endian) ==
    LET encrypted == cbc_encrypt(to_ne_bytes(key, endian), ZeroBlock, zero_pad(text))
    IN  {Base64Encode(encrypted),
         <<InvalidChar>> \o Base64Encode(encrypted),
         Base64Encode(encrypted \o <<1>>)}

NodeParked ==
    /\ fetch_node = [key |-> <<>>, kind |-> "File", encoded_attributes |-> <<>>,
                     folder_key |-> 0, endian |-> "big"]
    /\ node_result = NoDecoded

NodeInit ==
    /\ \E kind \in FetchNodesNodeKind, raw \in RawKeys, text \in AttributeTexts,
          folder_key \in {43981}, endian \in Endians :
          \E key \in KeyStrings(raw, folder_key, endian),
             encoded_attributes \in AttributeStrings(text, RawKeyValue(raw, endian), endian) :
              fetch_node = [key |-> key, kind |-> kind,
                            encoded_attributes |-> encoded_attributes,
                            folder_key |-> folder_key, endian |-> endian]
    /\ node_result = NoDecoded

\* node.decode_attributes(&folder_key)
DecodeAttributes ==
    /\ node_result' = FetchNodesNode_decode_attributes(fetch_node)
    /\ UNCHANGED <<fetch_node, reader_vars, client_vars, chunk_vars, key_vars, rest_vars, url_vars,
                   builder_vars, batch_vars>>

\* --------------------------------------------------------- batching client
\* The easy Client of src/src/easy.rs.  Commands are numbered in the order
\* their queue_command calls take the Mutex; the sender and the receiver of
\* a command's oneshot channel carry its number.
CommandIds == 1..MaxQueued


\* Response::into_result, then map_err(Error::from).
IntoResult(entry) ==
    IF entry.kind = "Error" THEN [kind |-> "ApiError", answers |-> entry.answers]
    ELSE [kind |-> "Ok", answers |-> entry.answers]

Deliver_forward(tx, response) ==
    [i \in 1..Len(tx) |-> [tx |-> tx[i], value |-> IntoResult(response[Len(tx) + 1 - i])]]

\* The Ok arm of the spawned task: tx is walked from its end, each sender
\* is given the response popped from the end of the response Vec.
RECURSIVE Deliver(_, _)
Deliver(tx, response) ==
    IF Len(tx) = 0 THEN <<>>
    ELSE Append(Deliver(Front(tx), Front(response)),
                [tx |-> Last(tx), value |-> IntoResult(Last(response))])

DeliverError_none(tx) == <<>>

\* The Err arm: every sender is given BatchSend.
DeliverError(tx) ==
    [i \in 1..Len(tx) |-> [tx |-> tx[i], value |-> [kind |-> "BatchSend", answers |-> 0]]]

\* tx.send(value) for each delivery: a receiver still held takes the value,
\* a dropped one makes send fail, which is ignored.
AfterSends(deliveries) ==
    [c \in CommandIds |->
        IF futures[c].state = "waiting" /\ \E i \in 1..Len(deliveries) : deliveries[i].tx = c
        THEN [state |-> "ready",
              value |-> deliveries[CHOOSE i \in 1..Len(deliveries) :
                                      deliveries[i].tx = c].value]
        ELSE futures[c]]

\* What the server answers to a batch: one entry per command, in the
\* commands' order, each an error code or the command's data.
Responses(commands) ==
    {[i \in 1..Len(commands) |-> [kind |-> kinds[i], answers |-> commands[i]]] :
        kinds \in [1..Len(commands) -> {"Ok", "Error"}]}

NoFuture == [state |-> "none", value |-> [kind |-> "", answers |-> 0]]

BatchParked ==
    /\ state = [buffered_commands |-> <<>>, buffered_tx |-> <<>>]
    /\ lock = 0
    /\ queued = 0
    /\ batches = <<>>
    /\ futures = [c \in CommandIds |-> NoFuture]

\* Client::new()
BatchInit == BatchParked

\* queue_command, first half: the Mutex is taken and the command pushed.
QueueCommandPushCommand ==
    /\ lock = 0
    /\ queued < MaxQueued
    /\ queued' = queued + 1
    /\ lock' = queued + 1
    /\ state' = [state EXCEPT !.buffered_commands = Append(@, queued + 1)]
    /\ UNCHANGED <<batches, futures, reader_vars, client_vars, chunk_vars, key_vars, rest_vars,
                   url_vars, builder_vars, node_vars>>

\* queue_command, second half: the sender is pushed, the Mutex released and
\* the receiver returned.
QueueCommandPushTx ==
    /\ lock # 0
    /\ state' = [state EXCEPT !.buffered_tx = Append(@, lock)]
    /\ futures' = [futures EXCEPT ![lock] = [NoFuture EXCEPT !.state = "waiting"]]
    /\ lock' = 0
    /\ UNCHANGED <<queued, batches, reader_vars, client_vars, chunk_vars, key_vars, rest_vars,
                   url_vars, builder_vars, node_vars>>

\* send_commands with nothing buffered: it returns.
SendCommandsEmpty ==
    /\ lock = 0
    /\ state.buffered_commands = <<>>
    /\ UNCHANGED <<batch_vars, reader_vars, client_vars, chunk_vars, key_vars, rest_vars,
                   url_vars, builder_vars, node_vars>>

SendCommands_leaves_tx ==
    /\ lock = 0
    /\ state.buffered_commands # <<>>
    /\ state' = [state EXCEPT !.buffered_commands = <<>>]
    /\ batches' = Append(batches, [commands |-> state.buffered_commands,
                                   tx |-> state.buffered_tx,
                                   result |-> "spawned", response |-> <<>>])
    /\ UNCHANGED <<lock, queued, futures, reader_vars, client_vars, chunk_vars, key_vars, rest_vars,
                   url_vars, builder_vars, node_vars>>

\* send_commands: under the Mutex both Vecs are swapped for empty ones, then
\* a task is spawned for the batch.
SendCommands ==
    /\ lock = 0
    /\ state.buffered_commands # <<>>
    /\ state' = [buffered_commands |-> <<>>, buffered_tx |-> <<>>]
    /\ batches' = Append(batches, [commands |-> state.buffered_commands,
                                   tx |-> state.buffered_tx,
                                   result |-> "spawned", response |-> <<>>])
    /\ UNCHANGED <<lock, queued, futures, reader_vars, client_vars, chunk_vars, key_vars, rest_vars,
                   url_vars, builder_vars, node_vars>>

\* The spawned task, execute_commands returning Ok(response).
TaskExecuteOk ==
    \E b \in 1..Len(batches) :
        \E response \in Responses(batches[b].commands) :
            /\ batches[b].result = "spawned"
            /\ batches' = [batches EXCEPT ![b].result = "ok", ![b].response = response]
            /\ futures' = AfterSends(Deliver(batches[b].tx, response))
            /\ UNCHANGED <<state, lock, queued, reader_vars, client_vars, chunk_vars,
                           key_vars, rest_vars, url_vars, builder_vars, node_vars>>

\* The spawned task, execute_commands returning an error.
TaskExecuteErr ==
    \E b \in 1..Len(batches) :
        /\ batches[b].result = "spawned"
        /\ batches' = [batches EXCEPT ![b].result = "err"]
        /\ futures' = AfterSends(DeliverError(batches[b].tx))
        /\ UNCHANGED <<state, lock, queued, reader_vars, client_vars, chunk_vars,
                       key_vars, rest_vars, url_vars, builder_vars, node_vars>>

\* A caller drops the future of get_attributes before it has a value.
DropFuture ==
    \E c \in CommandIds :
        /\ futures[c].state = "waiting"
        /\ futures' = [futures EXCEPT ![c].state = "dropped"]
        /\ UNCHANGED <<state, lock, queued, batches, reader_vars, client_vars, chunk_vars,
                       key_vars, rest_vars, url_vars, builder_vars, node_vars>>

BatchNext ==
    \/ QueueCommandPushCommand
    \/ QueueCommandPushTx
    \/ SendCommandsEmpty
    \/ SendCommands
    \/ TaskExecuteOk
    \/ TaskExecuteErr
    \/ DropFuture

EasyParked == validated = FALSE
RestParked == EasyParked /\ GetParked /\ LsParked /\ FolderParked
ExtraParked == UrlParked /\ BuilderParked /\ NodeParked /\ BatchParked /\ RestParked

\* -------------------------------------------------------- specifications
vars == <<file_key, cipher, validator, upstream, upstream_eof, output, last,
          mac_failed, sequence_id, calls,
          chunk_iter, chunk_item, chunk_count, cur_key, cur_text, cur_bytes, cur_result,
          url, parsed, builder, posted, attributes, fetch_node, node_result,
          state, lock, queued, batches, futures, validated,
          get_pc, temp_output, final_output, copy_buf,
          ls_options, ls_parent_id, ls_nodes, ls_pc, ls_stack, ls_children, ls_entries,
          children, stack, id_to_path, folder_pc, cur_children, processed, reached,
          downloaded>>

\* A reader nobody reads from.
ReaderParked ==
    /\ ReaderNew(CHOOSE fk \in FileKeys : fk.meta_mac = 0, FALSE)
    /\ upstream = <<>>
    /\ upstream_eof = FALSE
    /\ output = <<>>
    /\ last = [kind |-> "None"]
    /\ mac_failed = FALSE

\* One download through a FileDownloadReader.
Init == ReaderInit /\ ClientParked /\ ChunkInit /\ KeyParked /\ ExtraParked
Next == ReaderNext
Spec == Init /\ [][Next]_vars

\* execute_commands calls on clones of one Client.
ClientSpecInit == ClientInit /\ ReaderParked /\ ChunkInit /\ KeyParked /\ ExtraParked
ClientSpecNext == ClientNext
ClientSpec == ClientSpecInit /\ [][ClientSpecNext]_vars

\* verify-file on one file.
VerifySpecInit == VerifyInit /\ ClientParked /\ ChunkInit /\ KeyParked /\ ExtraParked

\* feed calls on one FileValidator.
FeedSpecInit == FeedInit /\ ClientParked /\ ChunkInit /\ KeyParked /\ ExtraParked
FeedSpec == FeedSpecInit /\ [][Feed]_vars

\* One download through the older DownloadValidateReader.
EasySpecInit ==
    /\ EasyInit /\ ClientParked /\ ChunkInit /\ KeyParked
    /\ UrlParked /\ BuilderParked /\ NodeParked /\ BatchParked /\ GetParked
    /\ LsParked /\ FolderParked
EasySpec == EasySpecInit /\ [][EasyNext]_vars

\* One download_file call of mega-cli get.
GetSpecInit ==
    /\ GetInit /\ ClientParked /\ ChunkInit /\ KeyParked
    /\ UrlParked /\ BuilderParked /\ NodeParked /\ BatchParked /\ EasyParked
    /\ LsParked /\ FolderParked
GetSpec == GetSpecInit /\ [][GetNext]_vars

\* One run of mega-cli ls on a folder listing.
LsSpecInit ==
    /\ LsInit /\ ReaderParked /\ ClientParked /\ ChunkInit /\ KeyParked
    /\ UrlParked /\ BuilderParked /\ NodeParked /\ BatchParked /\ EasyParked
    /\ GetParked /\ FolderParked
LsSpec == LsSpecInit /\ [][LsNext]_vars

\* One download_folder call of mega-cli get, run to its end.
FolderSpecInit ==
    /\ FolderInit /\ ReaderParked /\ ClientParked /\ ChunkInit /\ KeyParked
    /\ UrlParked /\ BuilderParked /\ NodeParked /\ BatchParked /\ EasyParked
    /\ GetParked /\ LsParked
FolderSpec == FolderSpecInit /\ [][FolderNext]_vars /\ WF_vars(FolderNext)

\* next() calls on one ChunkIter.
ChunkSpecInit == ChunkInit /\ ReaderParked /\ ClientParked /\ KeyParked /\ ExtraParked
ChunkSpec == ChunkSpecInit /\ [][ChunkNext]_vars

\* ParsedMegaUrl::try_from on one Url.
UrlSpecInit ==
    /\ UrlInit /\ ReaderParked /\ ClientParked /\ ChunkInit /\ KeyParked
    /\ BuilderParked /\ NodeParked /\ BatchParked /\ RestParked
UrlSpec == UrlSpecInit /\ [][TryFrom]_vars

\* One GetAttributesBuilder, filled in and given to get_attributes.
BuilderSpecInit ==
    /\ BuilderInit /\ ReaderParked /\ ClientParked /\ ChunkInit /\ KeyParked
    /\ UrlParked /\ NodeParked /\ BatchParked /\ RestParked

\* decode_attributes on one node of a folder listing.
NodeSpecInit ==
    /\ NodeInit /\ ReaderParked /\ ClientParked /\ ChunkInit /\ KeyParked
    /\ UrlParked /\ BuilderParked /\ BatchParked /\ RestParked
NodeSpec == NodeSpecInit /\ [][DecodeAttributes]_vars

\* Callers and spawned tasks of one batching Client.
BatchSpecInit ==
    /\ BatchInit /\ ReaderParked /\ ClientParked /\ ChunkInit /\ KeyParked
    /\ UrlParked /\ BuilderParked /\ NodeParked /\ RestParked
BatchSpec == BatchSpecInit /\ [][BatchNext]_vars

\* The same, where the exchange of every spawned batch completes: the task
\* tokio::spawn started is run, and execute_commands returns.
BatchLiveSpec == BatchSpec /\ WF_vars(TaskExecuteOk \/ TaskExecuteErr)
BuilderSpec == BuilderSpecInit /\ [][BuilderNext]_vars

\* Key operations on sample keys, strings and encoded bytes.
KeySpecInit == KeyInit /\ ReaderParked /\ ClientParked /\ ChunkInit /\ ExtraParked
KeySpec == KeySpecInit /\ [][KeyNext]_vars
VerifySpec == VerifySpecInit /\ [][VerifyNext]_vars

\* ------------------------------------------------------------------ claims

\* The value of MAC word i (0 is the most significant) of a block value.
MacWord(x, i) == (x \div (WordMod ^ (WORDS - 1 - i))) % WordMod

\* (w0 XOR w1) || (w2 XOR w3) over the words of AES(key, file_mac XOR chunk_mac).
CandidateMac(v) ==
    LET x == Aes(v.file_key.key, Xor(v.file_mac, v.chunk_mac))
    IN  Xor(MacWord(x, 0), MacWord(x, 1)) * WordMod + Xor(MacWord(x, 2), MacWord(x, 3))

\* C1: a validating read in which upstream delivers 0 bytes succeeds iff
\* (w0 XOR w1) || (w2 XOR w3) of AES(key, file_mac XOR chunk_mac) equals
\* meta_mac; otherwise it fails with MacMismatch{expected = meta_mac,
\* actual = the computed value}.
C1_EofReadComparesCandidate ==
    validator # <<>> =>
        /\ (upstream_eof /\ last.kind = "Ok") =>
               CandidateMac(validator[1]) = file_key.meta_mac
        /\ last.kind = "MacMismatch" =>
               /\ CandidateMac(validator[1]) # file_key.meta_mac
               /\ from_be_bytes(last.expected_mac) = file_key.meta_mac
               /\ from_be_bytes(last.actual_mac) = CandidateMac(validator[1])
               /\ Len(last.expected_mac) = HalfLen
               /\ Len(last.actual_mac) = HalfLen

C1_Witness ==
    /\ validator # <<>>
    /\ upstream_eof
    /\ Len(upstream) > BlockLen
    /\ last.kind = "MacMismatch"
    /\ last.actual_mac # [i \in 1..HalfLen |-> 0]

\* C2: however the plaintext was split over feed calls, the validator holds
\* the file_mac, chunk_mac and left_in_chunk of a single feed of the whole
\* plaintext, and finish() returns the same result.
C2_FeedSplitIndependent ==
    validator # <<>> =>
        LET whole == feed(FileValidatorNew(file_key), output)
        IN  /\ validator[1].file_mac = whole.file_mac
            /\ validator[1].chunk_mac = whole.chunk_mac
            /\ validator[1].left_in_chunk = whole.left_in_chunk
            /\ finish(validator[1]) = finish(whole)

\* A feed of 3 bytes that ends 2 bytes past the first chunk boundary: it
\* completed a staged block, closed the chunk and staged its own tail.
C2_Witness ==
    /\ validator # <<>>
    /\ last.kind = "Ok"
    /\ last.n = BlockLen - 1
    /\ Len(output) = CHUNK_STEP + 2
    /\ validator[1].buffer_end = 2
    /\ validator[1].file_mac # 0

\* The CTR decryption of a whole stream under a fresh cipher.
CtrReference(fk, stream) ==
    [i \in 1..Len(stream) |->
        Xor(stream[i],
            to_be_bytes(Aes(fk.key, (fk.iv + ((i - 1) \div BlockLen)) % U128Mod),
                        BlockLen)[((i - 1) % BlockLen) + 1])]

\* C3: every read emits exactly as many bytes as upstream delivered for it,
\* the reader emits as many bytes as upstream delivered in total, and the
\* output is the same function of the upstream stream for every split.
C3_OutputSplitIndependent ==
    [][/\ Len(output') - Len(output) = Len(upstream') - Len(upstream)
       /\ Len(output') = Len(upstream')
       /\ output' = CtrReference(file_key, upstream')]_vars

C3_Witness ==
    /\ Len(upstream) = MaxLen
    /\ last.kind = "Ok"
    /\ last.n = 1
    /\ output # upstream

\* The plaintext up to the last whole block.
AlignedPrefix(stream) == SubSeq(stream, 1, Len(stream) - (Len(stream) % BlockLen))

\* C5: the result of finish() is that of the plaintext cut to its last
\* whole block: the staged tail is not fed to the MAC, not padded, and
\* causes no error of its own.
C5_TailNotAuthenticated ==
    validator # <<>> =>
        /\ finish(validator[1])
               = finish(feed(FileValidatorNew(file_key), AlignedPrefix(output)))
        /\ (upstream_eof /\ last.kind \in {"Ok", "MacMismatch"}) =>
               last.kind = finish(feed(FileValidatorNew(file_key),
                                       AlignedPrefix(output))).kind

C5_Witness ==
    /\ validator # <<>>
    /\ upstream_eof
    /\ last.kind = "Ok"
    /\ Len(output) > BlockLen
    /\ Len(output) % BlockLen # 0
    /\ validator[1].buffer_end = Len(output) % BlockLen

\* C6: once a read at end-of-stream has returned MacMismatch, no later read
\* returns Ok.
C6_MismatchIsFinal ==
    mac_failed => last.kind \in {"MacMismatch", "Pending"}

C6_Witness ==
    /\ mac_failed
    /\ last.kind = "Pending"
    /\ Len(upstream) > 0

\* The body that is the bare number -3, and the one-element array [-3].
ScalarEagain == JInt(EAGAIN)
ArrayEagain == JArray(<<JInt(EAGAIN)>>)

RECURSIVE SumSeq(_)
SumSeq(q) == IF Len(q) = 0 THEN 0 ELSE q[1] + SumSeq(Tail(q))

BackoffSchedule == <<250, 500, 1000>>

\* C7: a call makes at most 4 POSTs, its sleeps are 250, 500 and 1000 ms,
\* one before each retry, and a call that got EAGAIN every time ends after
\* the fourth POST with ApiError(EAGAIN).
C7_EagainRetriedThreeTimes ==
    \A c \in Calls :
        LET call == calls[c]
        IN  /\ call.posts <= 4
            /\ call.slept = SubSeq(BackoffSchedule, 1, Len(call.slept))
            /\ call.pc \in {"send", "body"} => Len(call.slept) = call.posts - 1
            /\ call.pc = "sleep" => Len(call.slept) = call.posts
            /\ (/\ Len(call.responses) = 4
                /\ \A i \in 1..4 : call.responses[i] = ScalarEagain)
               => /\ call.pc = "done"
                  /\ call.posts = 4
                  /\ call.slept = BackoffSchedule
                  /\ call.result = ApiError(EAGAIN)

C7_Witness ==
    \E c \in Calls :
        /\ calls[c].pc = "done"
        /\ calls[c].posts = 4
        /\ calls[c].responses = <<ScalarEagain, ScalarEagain, ScalarEagain, ScalarEagain>>
        /\ calls[c].result = ApiError(EAGAIN)

\* C8 as stated: a call whose every response body was the array [-3] ends
\* with three retries and ApiError(EAGAIN).
C8_ArrayEagainRetried ==
    \A c \in Calls :
        (/\ calls[c].pc = "done"
         /\ Len(calls[c].responses) >= 1
         /\ \A i \in 1..Len(calls[c].responses) : calls[c].responses[i] = ArrayEagain)
        => /\ calls[c].retries = 3
           /\ calls[c].result = ApiError(EAGAIN)

\* C8, amended: the retried body is the bare number -3.  Four of them end
\* the call with three retries and ApiError(EAGAIN); two of them and then an
\* array of the batch's length end it with Ok after two retries and 750 ms
\* of sleep; the array [-3] is a decoded batch and is never retried.
C8_ScalarEagainRetried ==
    \A c \in Calls :
        LET call == calls[c]
            r == call.responses
        IN  /\ (Len(r) = 4 /\ \A i \in 1..4 : r[i] = ScalarEagain)
               => /\ call.pc = "done"
                  /\ call.retries = 3
                  /\ call.result = ApiError(EAGAIN)
            /\ (/\ Len(r) = 3
                /\ r[1] = ScalarEagain
                /\ r[2] = ScalarEagain
                /\ r[3].t = "array"
                /\ Len(r[3].items) = call.commands_len)
               => /\ call.pc = "done"
                  /\ call.result.kind = "Ok"
                  /\ call.retries = 2
                  /\ call.posts = 3
                  /\ SumSeq(call.slept) = 750
            /\ (Len(r) >= 1 /\ r[Len(r)] = ArrayEagain)
               => /\ call.pc = "done"
                  /\ Len(call.slept) = Len(r) - 1
                  /\ call.result = IF call.commands_len = 1
                                   THEN OkResult(<<[tag |-> "Error", code |-> EAGAIN]>>)
                                   ELSE ResponseLengthMismatch(call.commands_len, 1)

C8_Witness ==
    \E c \in Calls :
        /\ calls[c].pc = "done"
        /\ calls[c].commands_len = 1
        /\ calls[c].responses = <<ScalarEagain, ScalarEagain, JArray(<<JObject>>)>>
        /\ calls[c].result.kind = "Ok"
        /\ calls[c].slept = <<250, 500>>

\* A response that is not retried: a number other than EAGAIN, a status
\* that is not 2xx, a transport failure, a body that does not decode.
ImmediateError(seen) ==
    \/ seen.t \in {"transport", "status", "string"}
    \/ seen.t = "int" /\ seen.code # EAGAIN

ErrorOf(seen) ==
    IF seen.t = "int" THEN ApiError(seen.code) ELSE ReqwestError

\* C9: such a response ends the call with that error, with no sleep after
\* it; as the first response, after exactly one POST, no sleep and no retry.
C9_OtherErrorsNotRetried ==
    \A c \in Calls :
        LET call == calls[c]
            r == call.responses
        IN  (Len(r) >= 1 /\ ImmediateError(r[Len(r)]))
            => /\ call.pc = "done"
               /\ call.result = ErrorOf(r[Len(r)])
               /\ call.posts = Len(r)
               /\ call.retries = Len(r) - 1
               /\ Len(call.slept) = Len(r) - 1
               /\ Len(r) = 1 => (call.posts = 1 /\ call.slept = <<>> /\ call.retries = 0)

C9_Witness ==
    \E c \in Calls :
        /\ calls[c].pc = "done"
        /\ calls[c].responses = <<JInt(EOENT)>>
        /\ calls[c].result = ApiError(EOENT)
        /\ \E d \in Calls :
              /\ calls[d].pc = "done"
              /\ calls[d].responses = <<Status>>
              /\ calls[d].result = ReqwestError

\* C10: Ok(r) has exactly commands.len() entries; an array of any other
\* length ends the call with ResponseLengthMismatch{expected = commands.len(),
\* actual = the array's length} and no responses.
C10_ResponseLengthChecked ==
    \A c \in Calls :
        LET call == calls[c]
            r == call.responses
        IN  /\ call.result.kind = "Ok"
               => /\ Len(call.result.value) = call.commands_len
                  /\ call.pc = "done"
                  /\ r[Len(r)].t = "array"
                  /\ Len(r[Len(r)].items) = call.commands_len
            /\ (Len(r) >= 1 /\ r[Len(r)].t = "array"
                    /\ Len(r[Len(r)].items) # call.commands_len)
               => /\ call.pc = "done"
                  /\ call.result.kind = "ResponseLengthMismatch"
                  /\ call.result.expected = call.commands_len
                  /\ call.result.actual = Len(r[Len(r)].items)
                  /\ call.result.value = <<>>

C10_Witness ==
    \E c, d \in Calls :
        /\ calls[c].result = ResponseLengthMismatch(1, 2)
        /\ calls[d].result = OkResult(<<>>)
        /\ calls[d].commands_len = 0

\* The calls that have drawn their id.
Started == {c \in Calls : calls[c].pc # "idle"}

\* C11: concurrent calls on clones of one Client never read the same counter
\* value, no increment is lost (the values read are the last |Started| values
\* before the counter's present one), and each call's id is the value it read
\* modulo 100000, in 0..99999.
C11_SequenceIdsDistinct ==
    /\ \A c, d \in Started : c # d => calls[c].observed # calls[d].observed
    /\ {calls[c].observed : c \in Started}
         = {(sequence_id + AtomicU64Mod - k) % AtomicU64Mod : k \in 1..Cardinality(Started)}
    /\ \A c \in Started :
          /\ calls[c].id = calls[c].observed % 100000
          /\ calls[c].id \in 0..99999

C11_Witness ==
    /\ Started = Calls
    /\ \E c, d \in Calls :
          /\ calls[c].pc \in {"send", "body", "sleep"}
          /\ calls[d].pc \in {"send", "body", "sleep"}
          /\ calls[c].observed = 99999
          /\ calls[d].observed = 100000
          /\ calls[d].id = 0

\* C12: a call advances the shared counter by exactly one, when it starts and
\* never again, whatever its outcome; its id is the same for every POST; a
\* step of one call changes nothing else that is shared and no other call.
C12_OneIdPerCall ==
    [][ /\ \A c \in Calls :
              /\ (calls[c].pc = "idle" /\ calls'[c].pc # "idle")
                    => sequence_id' = (sequence_id + 1) % AtomicU64Mod
              /\ calls[c].pc # "idle"
                    => /\ calls'[c].pc # "idle"
                       /\ calls'[c].id = calls[c].id
                       /\ calls'[c].observed = calls[c].observed
        /\ (\A c \in Calls : calls[c].pc = "idle" <=> calls'[c].pc = "idle")
              => sequence_id' = sequence_id
        /\ Cardinality({c \in Calls : calls'[c] # calls[c]}) <= 1
        /\ UNCHANGED reader_vars ]_vars

C12_Witness ==
    \E c, d \in Calls :
        /\ calls[c].pc = "dropped"
        /\ calls[c].posts = 3
        /\ calls[d].pc = "done"
        /\ calls[d].retries = 2
        /\ calls[d].result.kind = "Ok"
        /\ sequence_id = (calls[c].observed + 2) % AtomicU64Mod

\* C13 as stated: for any seed, a call that starts reads a counter value
\* strictly greater than the value read by every call started before it.
C13_CounterStrictlyIncreasing ==
    [][ \A c \in Calls :
            (calls[c].pc = "idle" /\ calls'[c].pc # "idle")
            => \A d \in Calls :
                  calls[d].pc # "idle" => calls'[c].observed > calls[d].observed ]_vars

\* C13, amended: the counter wraps.  A call that starts reads the counter's
\* present value, which is one above the value some earlier call read, modulo
\* 2^64 (here AtomicU64Mod).  It is strictly greater than every earlier value
\* as long as no earlier call read the largest value; a call that read the
\* largest value is followed by calls that read smaller ones, from 0.
C13_CounterIncreasesUntilWrap ==
    [][ \A c \in Calls :
            (calls[c].pc = "idle" /\ calls'[c].pc # "idle")
            => /\ calls'[c].observed = sequence_id
               /\ Started # {}
                    => \E d \in Started :
                          calls'[c].observed = (calls[d].observed + 1) % AtomicU64Mod
               /\ (\A e \in Started : calls[e].observed # AtomicU64Mod - 1)
                    => \A d \in Started : calls'[c].observed > calls[d].observed
               /\ \A e \in Started :
                     calls[e].observed = AtomicU64Mod - 1
                     => calls'[c].observed < calls[e].observed ]_vars

C13_Witness ==
    \E c, d \in Calls :
        /\ calls[c].pc # "idle"
        /\ calls[d].pc # "idle"
        /\ calls[c].observed = AtomicU64Mod - 1
        /\ calls[d].observed = 0

\* The chunked CBC-MAC written as a function of the whole plaintext.
RefChunkSize(i) == Min((i + 1) * CHUNK_STEP, CHUNK_CAP)

\* The sum of the sizes of the chunks before chunk i: 1 + 2 + ... steps up to
\* the chunk where the cap is reached, the cap for every chunk after it.
RefChunkStart(i) ==
    LET k == CHUNK_CAP \div CHUNK_STEP
    IN  IF i <= k THEN CHUNK_STEP * ((i * (i + 1)) \div 2)
        ELSE CHUNK_STEP * ((k * (k + 1)) \div 2) + CHUNK_CAP * (i - k)

\* iv_hi || iv_hi
RefSeed(fk) == (fk.iv \div U64Mod) * U64Mod + (fk.iv \div U64Mod)

\* The CBC-MAC, from `mac`, of the whole blocks of data[from+1 .. to].
RECURSIVE RefCbcMac(_, _, _, _, _)
RefCbcMac(key, mac, data, from, to) ==
    IF from + BlockLen > to THEN mac
    ELSE RefCbcMac(key,
                   Aes(key, Xor(mac, from_be_bytes(SubSeq(data, from + 1, from + BlockLen)))),
                   data, from + BlockLen, to)

\* The index of the chunk that holds the next block to come after `len` bytes.
RECURSIVE RefOpenChunk(_, _)
RefOpenChunk(len, i) ==
    IF RefChunkStart(i + 1) <= len THEN RefOpenChunk(len, i + 1) ELSE i

\* file_mac after chunks i, i+1, ..., n-1 are folded into `file_mac`.
RECURSIVE RefFold(_, _, _, _, _)
RefFold(fk, data, file_mac, i, n) ==
    IF i >= n THEN file_mac
    ELSE RefFold(fk, data,
                 Aes(fk.key, Xor(file_mac,
                     RefCbcMac(fk.key, RefSeed(fk), data,
                               RefChunkStart(i), RefChunkStart(i + 1)))),
                 i + 1, n)

\* C14: whatever the split into feeds, file_mac is the fold, in stream order
\* from 0, of the MACs of the completed chunks, each computed from the seed
\* iv_hi||iv_hi over the chunk's own blocks; chunk_mac is the MAC of the open
\* chunk's blocks so far and left_in_chunk the bytes the open chunk still lacks.
C14_FileMacIsChunkedCbcMac ==
    LET v == validator[1]
        aligned == (Len(output) \div BlockLen) * BlockLen
        open == RefOpenChunk(aligned, 0)
    IN  /\ v.file_mac = RefFold(file_key, output, 0, 0, open)
        /\ v.chunk_mac = RefCbcMac(file_key.key, RefSeed(file_key), output,
                                   RefChunkStart(open), aligned)
        /\ v.left_in_chunk = RefChunkStart(open + 1) - aligned
        /\ v.buffer_end = Len(output) - aligned

\* Two chunks are complete and folded, the third is open, and the file ends
\* two bytes after the second boundary.
C14_Witness ==
    /\ Len(output) = RefChunkStart(2) + 2
    /\ validator[1].chunk_iter.offset = RefChunkStart(3)
    /\ validator[1].file_mac # 0
    /\ \E i \in 1..Len(output) : output[i] # 0
    /\ upstream_eof
    /\ last.kind = "Ok"

\* C15: the i-th item (from 0) is (offset_i, size_i) with size_i the smaller
\* of (i+1) steps and the cap of 8 steps, and offset_i the sum of the sizes
\* before it; next() never returns None.
C15_ChunkIterItems ==
    chunk_count >= 1
    => LET i == chunk_count - 1
       IN  /\ chunk_item # <<>>
           /\ chunk_item[1][2] = Min((i + 1) * CHUNK_STEP, 8 * CHUNK_STEP)
           /\ chunk_item[1][1] = RefChunkStart(i)
           /\ chunk_item[1][1] + chunk_item[1][2] = chunk_iter.offset

\* The tenth item of test::chunk_iter: offset 44 steps, size 8 steps.
C15_Witness ==
    /\ chunk_count = 10
    /\ chunk_item = << <<44 * CHUNK_STEP, 8 * CHUNK_STEP>> >>

\* What a validating reader made with the same key emits for a read of
\* new_bytes after the same upstream bytes: its cipher has consumed them all.
ValidatingReaderEmits(new_bytes) ==
    LET twin == apply_keystream(CipherNew(file_key), upstream).cipher
    IN  apply_keystream(twin, new_bytes).data

\* C16: a reader without a validator never returns a MAC mismatch, whatever
\* the stream and the meta_mac, and every read of it emits the bytes the
\* validating reader emits for the same read.
C16_NoVerifyNeverFails ==
    [][ validator = <<>>
        => /\ last'.kind # "MacMismatch"
           /\ ~mac_failed'
           /\ validator' = <<>>
           /\ output' = output \o ValidatingReaderEmits(
                  SubSeq(upstream', Len(upstream) + 1, Len(upstream'))) ]_vars

\* A reader without a validator has returned Ok at the end of a stream that
\* a validating reader with the same key rejects.
C16_Witness ==
    /\ validator = <<>>
    /\ upstream_eof
    /\ last = [kind |-> "Ok", n |-> 0]
    /\ Len(output) = MaxLen
    /\ finish(feed(FileValidatorNew(file_key), output)).kind = "MacMismatch"

\* C17: for a FolderKey k, and for a FileKey k whose iv has its low half
\* zero, parsing to_string(k) succeeds and gives back k, field by field.
C17_KeyStringRoundTrip ==
    /\ (/\ cur_result.op = "FileKey::from_str"
        /\ cur_key.variant = "File"
        /\ cur_key.iv % KeyU64Mod = 0
        /\ cur_result.input = FileKey_to_string(cur_key))
       => /\ cur_result.kind = "Ok"
          /\ cur_result.value.variant = "File"
          /\ cur_result.value.key = cur_key.key
          /\ cur_result.value.iv = cur_key.iv
          /\ cur_result.value.meta_mac = cur_key.meta_mac
    /\ (/\ cur_result.op = "FolderKey::from_str"
        /\ cur_key.variant = "Folder"
        /\ cur_result.input = FolderKey_to_string(cur_key))
       => /\ cur_result.kind = "Ok"
          /\ cur_result.value.variant = "Folder"
          /\ cur_result.value.key = cur_key.key

C17_Witness ==
    /\ cur_key.variant = "File"
    /\ cur_key.key = 43981
    /\ cur_key.iv = 165 * KeyU64Mod
    /\ cur_key.meta_mac = KeyU64Mod - 1
    /\ cur_text = FileKey_to_string(cur_key)
    /\ Len(cur_text) = FILE_KEY_BASE64_LEN
    /\ cur_result.op = "FileKey::from_str"
    /\ cur_result.input = cur_text
    /\ cur_result.value = cur_key

\* Word i (from 0) of encoded bytes read as eight big-endian words, and the
\* number whose big-endian words are those of `ws`.
KeyWordLen == KEY_SIZE \div 4
KeyWordMod == KeyByteMod ^ KeyWordLen

RECURSIVE KeyWordValue(_, _, _)
KeyWordValue(bytes, from, n) ==
    IF n = 0 THEN 0
    ELSE KeyWordValue(bytes, from, n - 1) * KeyByteMod + bytes[from + n]

KeyWord(bytes, i) == KeyWordValue(bytes, i * KeyWordLen, KeyWordLen)

RECURSIVE WordsValue(_)
WordsValue(ws) ==
    IF Len(ws) = 0 THEN 0
    ELSE WordsValue(SubSeq(ws, 1, Len(ws) - 1)) * KeyWordMod + ws[Len(ws)]

\* C18: the key made from encoded bytes w0..w7 has key = u128(w0..w3) XOR
\* u128(w4..w7), iv = u64(w4..w5) in the high half with the low half zero,
\* meta_mac = u64(w6..w7); and to_encoded_bytes of it gives the bytes back.
C18_EncodedBytesLayout ==
    cur_bytes # <<>>
    => LET w == [i \in 0..7 |-> KeyWord(cur_bytes, i)]
       IN  /\ cur_key.variant = "File"
           /\ cur_key.key = Xor(WordsValue(<<w[0], w[1], w[2], w[3]>>),
                                WordsValue(<<w[4], w[5], w[6], w[7]>>))
           /\ cur_key.iv = WordsValue(<<w[4], w[5]>>) * KeyU64Mod
           /\ cur_key.iv % KeyU64Mod = 0
           /\ cur_key.meta_mac = WordsValue(<<w[6], w[7]>>)
           /\ cur_result.op = "to_encoded_bytes" => cur_result.output = cur_bytes

C18_Witness ==
    /\ cur_bytes = key_to_be_bytes(4660, KEY_SIZE) \o key_to_be_bytes(43981, KEY_SIZE)
    /\ cur_key.key = Xor(4660, 43981)
    /\ cur_key.iv = (43981 \div KeyU64Mod) * KeyU64Mod
    /\ cur_key.meta_mac = 43981 % KeyU64Mod
    /\ cur_result.op = "to_encoded_bytes"
    /\ cur_result.output = cur_bytes

\* C19: FileOrFolderKey::from_str looks at the length only: a string of the
\* folder length is parsed as a FolderKey and nothing else, one of the file
\* length as a FileKey and nothing else, any other fails with
\* InvalidKeyLength carrying the length.
C19_DispatchByLength ==
    cur_result.op = "FileOrFolderKey::from_str"
    => LET input == cur_result.input
           same(r) == /\ cur_result.kind = r.kind
                      /\ cur_result.length = r.length
                      /\ cur_result.value = r.value
       IN  /\ Len(input) = FOLDER_KEY_BASE64_LEN
              => /\ cur_result.wrap = "Folder"
                 /\ cur_result.value.variant # "File"
                 /\ same(FolderKey_from_str(input))
           /\ Len(input) = FILE_KEY_BASE64_LEN
              => /\ cur_result.wrap = "File"
                 /\ cur_result.value.variant # "Folder"
                 /\ same(FileKey_from_str(input))
           /\ Len(input) \notin {FOLDER_KEY_BASE64_LEN, FILE_KEY_BASE64_LEN}
              => /\ cur_result.kind = "InvalidKeyLength"
                 /\ cur_result.length = Len(input)
                 /\ cur_result.wrap = ""
                 /\ cur_result.value = NoKey

C19_Witness ==
    /\ cur_result.op = "FileOrFolderKey::from_str"
    /\ Len(cur_result.input) = FOLDER_KEY_BASE64_LEN
    /\ cur_result.kind = "Ok"
    /\ cur_result.wrap = "Folder"
    /\ cur_result.value.variant = "Folder"
    /\ cur_key.variant = "File"

\* C20: FileKey::from_str on a string whose length is not the file length,
\* and FolderKey::from_str on one whose length is not the folder length,
\* return InvalidBase64Length carrying the string's length.
C20_WrongLengthRejected ==
    /\ (cur_result.op = "FileKey::from_str"
            /\ Len(cur_result.input) # FILE_KEY_BASE64_LEN)
       => /\ cur_result.kind = "InvalidBase64Length"
          /\ cur_result.length = Len(cur_result.input)
    /\ (cur_result.op = "FolderKey::from_str"
            /\ Len(cur_result.input) # FOLDER_KEY_BASE64_LEN)
       => /\ cur_result.kind = "InvalidBase64Length"
          /\ cur_result.length = Len(cur_result.input)

\* C26: a validating reader reports a MAC mismatch only when upstream has
\* reached end-of-stream, never while upstream still has bytes to deliver.
C26_FinalizeOnlyAtEof ==
    (validator # <<>> /\ last.kind = "MacMismatch") => upstream_eof

\* C27: a read on which upstream returns Pending or an error leaves the
\* keystream position, the MAC state and the bytes given to the caller as
\* they were and returns upstream's result; what a read returns is Ok,
\* upstream's Pending or error, or, from a validating reader, a MAC mismatch.
C27_PendingAndErrorFrame ==
    [][ /\ last'.kind \in {"Pending", "Err"}
           => /\ cipher' = cipher
              /\ validator' = validator
              /\ output' = output
              /\ upstream' = upstream
        /\ last'.kind \in {"Ok", "Pending", "Err", "MacMismatch"}
        /\ last'.kind = "MacMismatch" => validator # <<>> ]_vars

\* Upstream has failed in the middle of a block of a validating reader.
C27_Witness ==
    /\ last.kind = "Err"
    /\ validator # <<>>
    /\ validator[1].buffer_end = 1
    /\ cipher.pos = BlockLen + 1
    /\ Len(output) = BlockLen + 1

\* C28: a finish call leaves the validator as it was, so that a second call
\* returns what the first did; data fed afterwards is added to the state the
\* validator had before the call, and the final result is that of the
\* plaintext fed without any finish call in between.
C28_FinishDoesNotModify ==
    [][ (/\ validator # <<>>
         /\ upstream' = upstream
         /\ last'.kind \in {"Ok", "MacMismatch"})
        => /\ validator' = validator
           /\ (last'.kind = "Ok") = (finish(validator'[1]).kind = "Ok")
           /\ last'.kind = "MacMismatch" => last' = finish(validator'[1])
           /\ finish(validator'[1]) = finish(feed(FileValidatorNew(file_key), output')) ]_vars

\* finish has returned a mismatch in the middle of the stream and of a
\* block, more data was fed, and finish at the end of the stream returned Ok.
C28_Witness ==
    /\ validator # <<>>
    /\ upstream_eof
    /\ last = [kind |-> "Ok", n |-> 0]
    /\ Len(output) = 2 * BlockLen
    /\ finish(feed(FileValidatorNew(file_key), SubSeq(output, 1, BlockLen + 1))).kind
          = "MacMismatch"

\* C29: after any feed calls, of any lengths from 0, left_in_chunk is a
\* whole number of blocks, at least one block and at most the largest chunk,
\* and buffer_end is the number of bytes fed so far modulo the block length.
C29_ValidatorInvariants ==
    LET v == validator[1]
    IN  /\ v.left_in_chunk % BlockLen = 0
        /\ v.left_in_chunk >= BlockLen
        /\ v.left_in_chunk <= CHUNK_CAP
        /\ v.buffer_end >= 0
        /\ v.buffer_end <= BlockLen - 1
        /\ v.buffer_end = Len(output) % BlockLen

\* Feeds have opened the ninth chunk, the first whose size the cap cuts,
\* and stopped one byte short of the end of its first block.
C29_Witness ==
    /\ validator[1].chunk_iter.delta = CHUNK_CAP
    /\ validator[1].chunk_iter.offset = 44 * CHUNK_STEP
    /\ validator[1].left_in_chunk = CHUNK_CAP
    /\ validator[1].buffer_end = BlockLen - 1
    /\ Len(output) = 36 * CHUNK_STEP + BlockLen - 1

\* C21: try_from returns an error for every Url whose host is not mega.nz,
\* whose first path segment is neither "file" nor "folder", whose id segment
\* is missing, or whose path goes on after the id.
C21_BadUrlRejected ==
    LET path == IF url.path = <<>> THEN <<>> ELSE url.path[1]
    IN  (/\ parsed.kind # "None"
         /\ \/ url.host # <<"mega.nz">>
            \/ Len(path) = 0
            \/ path[1] \notin {"file", "folder"}
            \/ Len(path) < 2
            \/ Len(path) > 2)
        => parsed.kind = "Err"

\* A folder Url with a good key and an empty segment after the id (a
\* trailing '/') has been rejected.
C21_Witness ==
    /\ url.host = <<"mega.nz">>
    /\ url.path = << <<"folder", "MWsm3aBL", "">> >>
    /\ url.fragment = <<FolderKey_to_string(FolderKey(43981))>>
    /\ parsed = Generic("expected the path to end, but it continued")

\* The part of a fragment before its first '/', and the part after it.
FragmentPrefix(text) ==
    IF \E i \in 1..Len(text) : text[i] = Slash
    THEN SubSeq(text, 1, (CHOOSE i \in 1..Len(text) :
                            /\ text[i] = Slash
                            /\ \A j \in 1..(i - 1) : text[j] # Slash) - 1)
    ELSE text
FragmentSuffix(text) == SubSeq(text, Len(FragmentPrefix(text)) + 2, Len(text))
\* text is word, '/', and an id.
HasShape(text, word) ==
    /\ Len(text) >= Len(word) + 1
    /\ SubSeq(text, 1, Len(word) + 1) = word \o <<Slash>>
ShapeId(text, word) == SubSeq(text, Len(word) + 2, Len(text))

\* C22: for a folder Url (host, "folder" and id in place, a fragment
\* present), parsing succeeds exactly when the fragment's part before its
\* first '/' parses as a FolderKey and the part after that '/', when there
\* is one (a fragment with no '/', or with nothing after it, has none), is
\* file/<id> or folder/<id>; the result carries that key, no child selector
\* when there is no suffix, and otherwise the selector of that kind and id.
C22_FolderFragment ==
    (/\ parsed.kind # "None"
     /\ url.host = <<"mega.nz">>
     /\ url.path # <<>>
     /\ Len(url.path[1]) = 2
     /\ url.path[1][1] = "folder"
     /\ url.fragment # <<>>)
    => LET prefix == FragmentPrefix(url.fragment[1])
           suffix == FragmentSuffix(url.fragment[1])
           folder_key == FolderKey_from_str(prefix)
       IN  /\ (parsed.kind = "Folder")
                  <=> /\ folder_key.kind = "Ok"
                      /\ \/ suffix = <<>>
                         \/ HasShape(suffix, StrFile)
                         \/ HasShape(suffix, StrFolder)
           /\ parsed.kind # "Folder" => parsed.kind = "Err"
           /\ parsed.kind = "Folder"
                  => /\ parsed.key = folder_key.value
                     /\ parsed.id = url.path[1][2]
                     /\ suffix = <<>> <=> parsed.child_data = <<>>
                     /\ HasShape(suffix, StrFile)
                            => parsed.child_data
                                   = <<[is_file |-> TRUE, node_id |-> ShapeId(suffix, StrFile)]>>
                     /\ HasShape(suffix, StrFolder)
                            => parsed.child_data
                                   = <<[is_file |-> FALSE, node_id |-> ShapeId(suffix, StrFolder)]>>

\* <key>/folder/<id>, as in test_parse_folder_nested_url, has been parsed
\* into a folder with a folder child of that id.
C22_Witness ==
    /\ url.path = << <<"folder", "MWsm3aBL">> >>
    /\ url.fragment = <<FolderKey_to_string(FolderKey(43981)) \o <<Slash>> \o StrFolder
                            \o <<Slash>> \o <<4>> >>
    /\ parsed = ParsedMegaFolderUrl("MWsm3aBL", FolderKey(43981),
                    <<[is_file |-> FALSE, node_id |-> <<4>>]>>)

\* C23: no GetAttributes command with both the public id and the node id
\* is handed to execute_commands, and get_attributes returns an error for a
\* builder that has both.
C23_BothIdsRejected ==
    /\ \A i \in 1..Len(posted) :
           \A j \in 1..Len(posted[i].commands) :
               ~(/\ posted[i].commands[j].public_file_id # <<>>
                 /\ posted[i].commands[j].node_id # <<>>)
    /\ (/\ attributes.kind # "None"
        /\ builder.public_file_id # <<>>
        /\ builder.node_id # <<>>) => attributes.kind = "Err"

\* The node's key as decrypted under the folder key: <<>> when the key
\* string has no header, is not base64 or is not a whole number of blocks.
DecryptedNodeKey(n) ==
    LET split == SplitOnce(n.key, Colon)
        wrapped == Base64DecodeVec(split.after)
        decrypted == ecb_decrypt_no_padding(to_ne_bytes(n.folder_key, n.endian),
                                            wrapped.bytes)
    IN  IF split.found /\ wrapped.ok /\ decrypted.ok THEN <<decrypted.bytes>> ELSE <<>>

\* C24 as stated: a decrypted node key yields a key exactly for a Directory
\* with 16 bytes and for a File with 32 bytes, and for Root, Inbox and
\* TrashBin the result is InvalidKeyLength.
C24_KeyOnlyForDirectoryOrFile ==
    (node_result.kind # "None" /\ DecryptedNodeKey(fetch_node) # <<>>)
    => LET key_len == Len(DecryptedNodeKey(fetch_node)[1])
       IN  /\ (node_result.key # <<>>)
                  <=> \/ fetch_node.kind = "Directory" /\ key_len = KEY_SIZE
                      \/ fetch_node.kind = "File" /\ key_len = 2 * KEY_SIZE
           /\ fetch_node.kind \in {"Root", "Inbox", "TrashBin"}
                  => node_result.error = "InvalidKeyLength"

\* C24, amended: a decrypted node key yields a key exactly for a Directory
\* with 16 bytes, whose value the bytes are, and for any other kind (File,
\* Root, Inbox, TrashBin) with 32 bytes, read through the FileKey layout;
\* every other combination of kind and length is InvalidKeyLength with the
\* decrypted length.
C24_KeyByKindAndLength ==
    (node_result.kind # "None" /\ DecryptedNodeKey(fetch_node) # <<>>)
    => LET key == DecryptedNodeKey(fetch_node)[1]
           key_len == Len(key)
       IN  /\ (node_result.key # <<>>)
                  <=> \/ fetch_node.kind = "Directory" /\ key_len = KEY_SIZE
                      \/ fetch_node.kind # "Directory" /\ key_len = 2 * KEY_SIZE
           /\ node_result.key = <<>> => node_result = InvalidKeyLength(key_len)
           /\ (node_result.key # <<>> /\ fetch_node.kind = "Directory")
                  => node_result.key = <<from_ne_bytes(key, fetch_node.endian)>>
           /\ (node_result.key # <<>> /\ fetch_node.kind # "Directory")
                  => node_result.key
                         = <<Xor(key_from_be_bytes(SubSeq(key, 1, KEY_SIZE)),
                                 key_from_be_bytes(SubSeq(key, KEY_SIZE + 1, 2 * KEY_SIZE)))>>

\* A Root node with a 32-byte key has been unwrapped as a file and its
\* attributes decoded.
C24_Witness ==
    /\ fetch_node.kind = "Root"
    /\ node_result.kind = "Ok"
    /\ node_result.key = <<43981>>
    /\ Len(DecryptedNodeKey(fetch_node)[1]) = 2 * KEY_SIZE

\* C25: decode_attributes, called with the node's key, returns attributes
\* only if the string is base64, its bytes decrypt, the text is UTF-8, it
\* starts with "MEGA" and the rest parses as JSON; otherwise it returns the
\* error of the first of these stages that fails, in that order, and no
\* attributes.
C25_FirstFailingStage ==
    (node_result.kind # "None" /\ node_result.key # <<>>)
    => LET encoded == Base64DecodeVec(fetch_node.encoded_attributes)
           decrypted == cbc_decrypt_zero_padding(
                            to_ne_bytes(node_result.key[1], fetch_node.endian),
                            encoded.bytes)
           text == decrypted.bytes
           s1 == encoded.ok
           s2 == decrypted.ok
           s3 == Utf8Valid(text)
           s4 == StartsWith(text, MEGA)
           s5 == JsonFromStr(SubSeq(text, Len(MEGA) + 1, Len(text))).ok
       IN  /\ ~s1 => node_result.error = "Base64Decode"
           /\ (s1 /\ ~s2) => node_result.error = "Decrypt"
           /\ (s1 /\ s2 /\ ~s3) => node_result.error = "InvalidUtf8"
           /\ (s1 /\ s2 /\ s3 /\ ~s4) => node_result.error = "MissingMegaPrefix"
           /\ (s1 /\ s2 /\ s3 /\ s4 /\ ~s5) => node_result.error = "Json"
           /\ (node_result.kind = "Ok") <=> (s1 /\ s2 /\ s3 /\ s4 /\ s5)
           /\ node_result.kind = "Ok"
                  => node_result.attributes
                         = <<[name |-> text[Len(MEGA) + 2]]>>
           /\ node_result.kind = "Err" => node_result.attributes = <<>>

\* The attributes of a directory decrypted to a text that is neither UTF-8
\* nor starts with "MEGA", and the error is the UTF-8 one.
C25_Witness ==
    /\ fetch_node.kind = "Directory"
    /\ node_result.key # <<>>
    /\ node_result.error = "InvalidUtf8"
    /\ ~StartsWith(cbc_decrypt_zero_padding(
                       to_ne_bytes(node_result.key[1], fetch_node.endian),
                       Base64DecodeVec(fetch_node.encoded_attributes).bytes).bytes, MEGA)

\* The batches that hold command c, and c's index in a batch.
BatchesOf(c) ==
    {b \in 1..Len(batches) :
        \E i \in 1..Len(batches[b].commands) : batches[b].commands[i] = c}
IndexIn(q, c) == CHOOSE i \in 1..Len(q) : q[i] = c
Occurrences(q, c) == Cardinality({i \in 1..Len(q) : q[i] = c})

\* C30: whenever the Mutex is free, buffered_commands and buffered_tx have
\* the same length and the sender at each index is that of the command at
\* that index; a command whose queue_command has returned is either still
\* buffered or in one batch, once, never both and never lost; and a future
\* that has a value has BatchSend if its batch failed and otherwise the
\* entry of the response at the index its command has in its batch.
C30_BatchCorrelation ==
    /\ lock = 0 => /\ Len(state.buffered_commands) = Len(state.buffered_tx)
                   /\ state.buffered_commands = state.buffered_tx
    /\ \A b \in 1..Len(batches) :
           /\ batches[b].commands # <<>>
           /\ batches[b].tx = batches[b].commands
    /\ \A c \in CommandIds :
           (c <= queued /\ c # lock)
           => /\ Occurrences(state.buffered_commands, c)
                     + Cardinality(BatchesOf(c)) = 1
              /\ \A b \in BatchesOf(c) : Occurrences(batches[b].commands, c) = 1
    /\ \A c \in CommandIds :
           futures[c].state = "ready"
           => /\ Cardinality(BatchesOf(c)) = 1
              /\ LET b == CHOOSE x \in BatchesOf(c) : TRUE
                 IN  /\ batches[b].result \in {"ok", "err"}
                     /\ batches[b].result = "err"
                            => futures[c].value.kind = "BatchSend"
                     /\ batches[b].result = "ok"
                            => futures[c].value
                                   = IntoResult(batches[b].response[
                                         IndexIn(batches[b].commands, c)])

\* Two commands went out in one batch and a third alone in a second one;
\* the second command's future has the second entry of the first batch's
\* response, an error code, and the first command's future its data.
C30_Witness ==
    /\ Len(batches) = 2
    /\ batches[1].commands = <<1, 2>>
    /\ batches[1].result = "ok"
    /\ batches[2].commands = <<3>>
    /\ futures[1] = [state |-> "ready", value |-> [kind |-> "Ok", answers |-> 1]]
    /\ futures[2] = [state |-> "ready", value |-> [kind |-> "ApiError", answers |-> 2]]

\* C31: a command whose batch has completed has no future still waiting: the
\* future has a value (its data, its own error code, or BatchSend exactly when
\* the batch failed as a whole) or was dropped by its caller; and once
\* send_commands has spawned the batch of a command, the future of that
\* command eventually stops waiting, given that the exchange completes.
C31_FuturesResolve ==
    \A c \in CommandIds :
        /\ [](\A b \in BatchesOf(c) :
                  batches[b].result \in {"ok", "err"}
                  => /\ futures[c].state \in {"ready", "dropped"}
                     /\ futures[c].state = "ready"
                            => /\ futures[c].value.kind \in {"Ok", "ApiError", "BatchSend"}
                               /\ futures[c].value.kind = "BatchSend"
                                      <=> batches[b].result = "err")
        /\ (BatchesOf(c) # {}) ~> (futures[c].state \in {"ready", "dropped"})

\* A batch of two commands failed as a whole and both futures have BatchSend,
\* while a third command is still buffered and its future waits.
C31_Witness ==
    /\ Len(batches) = 1
    /\ batches[1].commands = <<1, 2>>
    /\ batches[1].result = "err"
    /\ futures[1].state = "ready" /\ futures[1].value.kind = "BatchSend"
    /\ futures[2].state = "ready" /\ futures[2].value.kind = "BatchSend"
    /\ state.buffered_commands = <<3>>
    /\ futures[3].state = "waiting"

\* C32: in the older validating reader, once a read at end-of-stream has
\* passed validation, no read after it returns a MAC mismatch: every further
\* read at end-of-stream returns Ok with 0 bytes.
C32_ValidatedStays ==
    validated => last.kind # "MacMismatch"

\* C33: in the older FileValidator, a feed too short to complete the staged
\* block leaves the staged bytes where they are, puts the new bytes behind
\* them and grows buffer_end by the length of the feed.
C33_ShortFeedKeepsStaged ==
    [][(/\ validator[1].buffer_end # 0
        /\ Len(output') > Len(output)
        /\ Len(output') - Len(output) < BlockLen - validator[1].buffer_end)
       => LET n == Len(output') - Len(output)
              end == validator[1].buffer_end
          IN  /\ validator'[1].buffer_end = end + n
              /\ SubSeq(validator'[1].buffer, 1, end)
                     = SubSeq(validator[1].buffer, 1, end)
              /\ SubSeq(validator'[1].buffer, end + 1, end + n)
                     = SubSeq(output', Len(output) + 1, Len(output'))]_vars

\* C34: a Url that ParsedMegaUrl::try_from accepts has scheme https, host
\* mega.nz and a path of exactly two segments, file or folder and a
\* non-empty id; for a folder its fragment is a key of the folder key's
\* base64 length, alone or followed by /file/<id> or /folder/<id> with an
\* id that is not empty and holds no further '/'.
C34_AcceptedMatchesGrammar ==
    parsed.kind \in {"File", "Folder"}
    => /\ url.scheme = "https"
       /\ url.host = <<"mega.nz">>
       /\ url.path # <<>>
       /\ Len(url.path[1]) = 2
       /\ url.path[1][1] = (IF parsed.kind = "File" THEN "file" ELSE "folder")
       /\ url.path[1][2] # ""
       /\ url.fragment # <<>>
       /\ parsed.kind = "Folder"
              => LET text == url.fragment[1]
                     prefix == FragmentPrefix(text)
                     suffix == FragmentSuffix(text)
                     IdOk(id) == id # <<>> /\ \A i \in 1..Len(id) : id[i] # Slash
                 IN  /\ Len(prefix) = FOLDER_KEY_BASE64_LEN
                     /\ \/ text = prefix
                        \/ HasShape(suffix, StrFile) /\ IdOk(ShapeId(suffix, StrFile))
                        \/ HasShape(suffix, StrFolder) /\ IdOk(ShapeId(suffix, StrFolder))

\* C35: in download_file the output path holds a file only if the whole body
\* was read, decrypted and written, the read at its end passed the MAC check
\* and no read, write, flush or sync failed; after a MAC mismatch or such an
\* error the output path stays empty and the '.temp' file stays where it is.
C35_RenameOnlyAfterValidation ==
    /\ final_output # <<>>
           => /\ upstream_eof
              /\ ~mac_failed
              /\ last = [kind |-> "Ok"]
              /\ finish(validator[1]).kind = "Ok"
              /\ Len(output) = Len(upstream)
              /\ final_output = <<output>>
              /\ output = apply_keystream(CipherNew(file_key), upstream).data
              /\ get_pc \in {"join", "done", "failed"}
    /\ (mac_failed \/ last.kind = "Err") => (get_pc = "failed" /\ final_output = <<>>)
    /\ final_output = <<>> => get_pc \notin {"join", "done"}

\* A body longer than a block was copied in several reads and renamed.
C35_Witness ==
    /\ get_pc = "done"
    /\ Len(upstream) > BlockLen
    /\ final_output = <<output>>
    /\ temp_output = <<>>

\* The nodes whose parent is in the set S of ids, and the nodes reached
\* from the id p over at most k parent links that pass through directories.
LsChildrenOf(S) == {i \in 1..Len(ls_nodes) : ls_nodes[i].parent_id \in S}
RECURSIVE LsDescendants(_, _)
LsDescendants(p, k) ==
    IF k = 1 THEN LsChildrenOf({p})
    ELSE LsChildrenOf({p} \cup {i \in LsDescendants(p, k - 1) :
                                   ls_nodes[i].kind = "Directory"})

\* C36: ls with a folder child selector prints the direct children of the
\* selected node when --recursive is not set, and every transitive
\* descendant of the selected node when it is set.
C36_LsListsSelection ==
    (ls_pc = "done" /\ ls_parent_id # <<>>)
    => {ls_entries[i] : i \in 1..Len(ls_entries)}
           = IF ls_options.recursive
             THEN LsDescendants(ls_parent_id[1], MaxNodes)
             ELSE LsChildrenOf({ls_parent_id[1]})

\* The file children in the lists taken from the map so far.
RECURSIVE FilesIn(_)
FilesIn(list) ==
    IF list = <<>> THEN 0
    ELSE (IF list[1].kind = "File" THEN 1 ELSE 0) + FilesIn(Tail(list))
RECURSIVE FilesProcessed(_)
FilesProcessed(S) ==
    IF S = {} THEN 0
    ELSE LET p == CHOOSE x \in S : TRUE
         IN  (IF processed[p] = <<>> THEN 0 ELSE FilesIn(processed[p][1]))
                 + FilesProcessed(S \ {p})

\* C37: download_folder ends, by the rename or by an error, for every
\* children map; the child list of a parent id is taken from the map at
\* most once; and when the '.temp' folder has been renamed the stack and
\* the list in hand are empty, no folder named in a processed list still
\* has a list in the map, and every file child of every processed list was
\* downloaded without error.
C37_FolderTraversal ==
    /\ <>(folder_pc \in {"done", "failed"})
    /\ [](\A p \in FolderIds : Len(processed[p]) <= 1)
    /\ [](folder_pc = "done"
             => /\ stack = <<>>
                /\ cur_children = <<>>
                /\ children[root_folder_id] = <<>>
                /\ \A p \in FolderIds :
                       processed[p] # <<>>
                       => \A i \in 1..Len(processed[p][1]) :
                              processed[p][1][i].kind = "Folder"
                              => children[processed[p][1][i].id] = <<>>
                /\ reached = FilesProcessed(FolderIds)
                /\ downloaded = reached)

\* The root holds a file and folder 1, folder 1 holds the root again and a
\* file: both lists were processed once, both files downloaded, and the
\* folder was renamed.
C37_Witness ==
    /\ folder_pc = "done"
    /\ processed[0] = << <<[kind |-> "File", id |-> MaxFolders], [kind |-> "Folder", id |-> 1]>> >>
    /\ processed[1] = << <<[kind |-> "Folder", id |-> 0], [kind |-> "File", id |-> MaxFolders]>> >>
    /\ downloaded = 2

====
